---- MODULE Spec2Model ----
(***************************************************************************)
(* Viewport engine of the poster-session map (src/assets/js/script.js):    *)
(* zoom, drag-to-pan with inertia, pinch-to-zoom and the animated          *)
(* centering of PosterSessionMap, as a state machine driven by DOM events  *)
(* and animation frames.                                                   *)
(*                                                                         *)
(* Numbers.  JavaScript numbers are IEEE-754 doubles.  They are modelled   *)
(* as integers counting grid units, and every arithmetic result is rounded *)
(* to MantissaBits significant bits (round to nearest, ties to even), the  *)
(* way a double is rounded to 53:                                          *)
(*   pixels (pointer, pan, viewBox)       1/8 px                           *)
(*   zoom, multipliers, fractions         1/1024                           *)
(*   velocity                             1/16384 px per ms                *)
(*   time                                 1 ms (exact)                     *)
(***************************************************************************)
EXTENDS Integers, Sequences, FiniteSets, TLC

\* ------------------------------------------------------------------ bounds
\* Significant bits kept by an arithmetic result.
MantissaBits == 10
\* Events handled and long waits in one run.
MaxSteps == 3
\* Animation-frame callbacks the browser runs in one run.
MaxFrames == 2
\* Fingers on the screen at once.
MaxTouches == 2
\* Age in ms up to which the frames of a fling come at irregular times.
JitterUntil == 112

\* ---------------------------------------------------------------- numbers
RECURSIVE Pow2(_)
Pow2(k) == IF k = 0 THEN 1 ELSE 2 * Pow2(k - 1)

\* The values of a JavaScript number that are not finite.  Every finite
\* value of the model lies strictly between NegInf and PosInf.
PosInf == Pow2(30)
NegInf == -Pow2(30)
NaN == Pow2(30) + 1
\* Number.isFinite
IsFinite(a) == NegInf < a /\ a < PosInf
\* Unary minus.
Neg(a) == IF a = NaN THEN NaN ELSE -a

Abs(n) == IF n = NaN THEN NaN ELSE IF n < 0 THEN -n ELSE n
Sign(n) == IF n < 0 THEN -1 ELSE 1
\* Math.min and Math.max: NaN if an argument is NaN.
Min2(a, b) == IF a = NaN \/ b = NaN THEN NaN ELSE IF a <= b THEN a ELSE b
Max2(a, b) == IF a = NaN \/ b = NaN THEN NaN ELSE IF a >= b THEN a ELSE b

\* n / d rounded to the nearest integer (d > 0), halves away from zero.
RoundDiv(n, d) == Sign(n) * ((2 * Abs(n) + d) \div (2 * d))

\* Magnitudes below MantLimit grid units are exact.
MantLimit == Pow2(MantissaBits)

\* The spacing of representable values around a >= 0.
RECURSIVE Ulp(_, _, _)
Ulp(a, q, top) == IF a < top THEN q ELSE Ulp(a, 2 * q, 2 * top)

\* Round a >= 0 to a multiple of q, ties to the even multiple.
RoundTo(a, q) ==
    LET m == (2 * a + q) \div (2 * q)
    IN IF 2 * (a % q) = q /\ m % 2 = 1 THEN (m - 1) * q ELSE m * q

\* Round to the nearest representable value.
Fl(n) ==
    IF -MantLimit < n /\ n < MantLimit THEN n
    ELSE IF n < 0 THEN -RoundTo(-n, Ulp(-n, 1, MantLimit))
    ELSE RoundTo(n, Ulp(n, 1, MantLimit))

\* IEEE-754 arithmetic.  With finite operands the result is rounded; an
\* infinite operand gives an infinity, and Infinity - Infinity,
\* 0 * Infinity, Infinity / Infinity and every operation on NaN give NaN.
Add(a, b) ==
    IF IsFinite(a) /\ IsFinite(b) THEN Fl(a + b)
    ELSE IF a = NaN \/ b = NaN THEN NaN
    ELSE IF IsFinite(a) THEN b
    ELSE IF IsFinite(b) \/ a = b THEN a
    ELSE NaN
Sub(a, b) == Add(a, Neg(b))
\* a * m for a multiplier m in 1/1024 units.
Mul(a, m) ==
    IF IsFinite(a) /\ IsFinite(m) THEN Fl(RoundDiv(a * m, 1024))
    ELSE IF a = NaN \/ m = NaN \/ a = 0 \/ m = 0 THEN NaN
    ELSE IF (a > 0) = (m > 0) THEN PosInf ELSE NegInf
\* a / z for a divisor z # 0 in 1/1024 units.
Div(a, z) ==
    IF IsFinite(a) /\ IsFinite(z) THEN Fl(RoundDiv(a * 1024, z))
    ELSE IF a = NaN \/ z = NaN THEN NaN
    ELSE IF IsFinite(a) THEN 0
    ELSE IF ~IsFinite(z) THEN NaN
    ELSE IF (a > 0) = (z > 0) THEN PosInf ELSE NegInf
\* a / dt for a time dt > 0 in ms: pixels to velocity.
PerMs(a, dt) == IF IsFinite(a) THEN Fl(RoundDiv(a * 2048, dt)) ELSE a
\* A decimal literal num/den as a multiplier.
Dec(num, den) == Fl(RoundDiv(num * 1024, den))
\* A pixel count on the pixel grid.
Px(n) == IF IsFinite(n) THEN Fl(n * 8) ELSE n

\* Integer square root, rounded to nearest (lo * lo <= n < hi * hi).
RECURSIVE SqrtFloor(_, _, _)
SqrtFloor(n, lo, hi) ==
    IF hi - lo <= 1 THEN lo
    ELSE LET mid == (lo + hi) \div 2
         IN IF mid * mid <= n THEN SqrtFloor(n, mid, hi) ELSE SqrtFloor(n, lo, mid)
Sqrt(n) ==
    LET f == SqrtFloor(n, 0, 46340)
    IN IF n - f * f <= f THEN f ELSE f + 1

\* A clamp that lets every value through.
clampNothing(value, min, max) == value

clamp(value, min, max) == Min2(Max2(value, min), max)

\* e^x for x in 1/1024 units, in 1/1024 units.  The argument saturates at
\* +-4: every use multiplies a zoom in [1, 8] by the result and clamps the
\* product to [1, 8], and e^4 > 8, so the clamped product is the same.
ExpFrac(f) ==
    LET one == 16384
        g == f * 16
        h6 == one + RoundDiv(g, 6)
        h5 == one + RoundDiv(RoundDiv(g, 5) * h6, one)
        h4 == one + RoundDiv(RoundDiv(g, 4) * h5, one)
        h3 == one + RoundDiv(RoundDiv(g, 3) * h4, one)
        h2 == one + RoundDiv(RoundDiv(g, 2) * h3, one)
        h1 == one + RoundDiv(g * h2, one)
    IN RoundDiv(h1, 16)
RECURSIVE ExpInt(_, _)
ExpInt(k, acc) ==
    IF k = 0 THEN acc
    ELSE IF k > 0 THEN ExpInt(k - 1, RoundDiv(acc * 2784, 1024))
    ELSE ExpInt(k + 1, RoundDiv(acc * 1024, 2784))
Exp(x) ==
    LET xs == clamp(x, -4096, 4096)
        k == RoundDiv(xs, 1024)
        f == xs - k * 1024
    IN IF x = NaN THEN NaN ELSE Fl(ExpInt(k, ExpFrac(f)))

\* base^k for a base in 1/1024 units and an integer k >= 0.
RECURSIVE PowInt(_, _)
PowInt(base, k) == IF k = 0 THEN 1024 ELSE RoundDiv(base * PowInt(base, k - 1), 1024)

\* ----------------------------------------------------- program constants
minZoom == Dec(1, 1)
maxZoom == Dec(8, 1)
defaultPanX == Px(-60)
defaultPanY == Px(0)
baseWidth == Px(1150)
baseHeight == Px(1360)
doubleTapThresholdMs == 350
\* velocityConfig, in velocity units (1/16384 px per ms) and multipliers.
Vel(num, den) == Fl(RoundDiv(num * 16384, den))
velocityMax == Vel(75, 100)
velocitySmoothing == Dec(22, 100)
flickMultiplier == Dec(11, 10)
flickWindowMs == 35
flickMax == Vel(9, 10)
TOUCH_PAN_MULTIPLIER == Dec(14, 10)
minVelocity == Vel(12, 10000)
decay == Dec(93, 100)
\* getTouchDistance(...) || 0.0001: a start distance below the pixel grid.
TinyDistance == -1

\* ------------------------------------------------------------ environment
\* Screen points the pointer and the fingers visit (client pixels), and the
\* element found at each of them.
Positions == {<<100, 100>>, <<150, 130>>, <<160, 180>>, <<40, 400>>}
\* Two poster areas of the map and a point of the info panel, which lies
\* outside the svg.
AreaPositions == {<<300, 300>>, <<340, 300>>}
PanelPosition == <<200, 560>>
ElementAt(p) ==
    IF p = <<160, 180>> THEN "marker"
    ELSE IF p = <<40, 400>> THEN "tablePanel"
    ELSE IF p \in AreaPositions THEN "posterArea"
    ELSE IF p = PanelPosition THEN "infoPanel"
    ELSE "map"
\* data-area-id of the poster area at p.
AreaIdAt(p) == IF p = <<300, 300>> THEN 1 ELSE 2
\* Delay of the info panel's auto-hide timer, in ms.
infoAutoHideMs == 10000
\* The clock moves by a frame (ms) from one event to the next, and by
\* LongWait while the user does nothing.
EventGaps == {16}
LongWait == {304}
\* The svg's bounding client rectangle.
svgRect == [left |-> Px(0), top |-> Px(0), width |-> Px(400), height |-> Px(480)]
ClientX(p) == Px(p[1])
ClientY(p) == Px(p[2])

VARIABLES
    st,       \* the PosterSessionMap instance, the gesture closure of
              \* initializeEventListeners and the browser's pending frames
    touches,  \* the fingers on the screen, in the order of event.touches
    now,      \* performance.now() / Date.now(), ms
    steps,    \* events handled so far
    frames,   \* frame callbacks run so far
    hist      \* the last event handled: its name, the engine functions it
              \* called, and what was running when it arrived
vars == <<st, touches, now, steps, frames, hist>>

\* ----------------------------------------------------- PosterSessionMap
getPanSpeedMultiplier(s) ==
    LET zoomRange == Max2(Sub(maxZoom, minZoom), Dec(1, 10000))
        normalized == Div(Sub(s.currentZoom, minZoom), zoomRange)
        minMultiplier == Dec(1, 1)
        maxMultiplier == Dec(3, 1)
    IN Add(minMultiplier, Mul(normalized, Sub(maxMultiplier, minMultiplier)))

Half(a) == IF IsFinite(a) THEN Fl(RoundDiv(a, 2)) ELSE a

\* A viewBox anchored at the pan offset, without the centring term.
getViewBoxTopLeft(s) ==
    [x |-> Neg(s.panX), y |-> Neg(s.panY),
     width |-> Div(baseWidth, s.currentZoom), height |-> Div(baseHeight, s.currentZoom)]

getViewBox(s) ==
    LET width == Div(baseWidth, s.currentZoom)
        height == Div(baseHeight, s.currentZoom)
    IN [x |-> Add(Neg(s.panX), Half(Sub(baseWidth, width))),
        y |-> Add(Neg(s.panY), Half(Sub(baseHeight, height))),
        width |-> width, height |-> height]

updateViewBox(s) == [s EXCEPT !.viewBox = getViewBox(s)]

\* requestAnimationFrame / cancelAnimationFrame: the browser's list of
\* pending callbacks, each under its handle.
Handles(s) == {c.id : c \in s.rafAnim} \cup {c.id : c \in s.rafInertia}
NewHandle(s) == CHOOSE h \in 1..(Cardinality(Handles(s)) + 1) : h \notin Handles(s)
cancelAnimationFrame(s, h) ==
    [s EXCEPT !.rafAnim = {c \in @ : c.id # h},
              !.rafInertia = {c \in @ : c.id # h}]

\* A stopPanAnimation that leaves the animation running.
stopPanAnimationSkipped(s) == s

\* A stopPanAnimation that also puts the pan back where the view starts.
stopPanAnimationSnapBack(s) ==
    [s EXCEPT !.rafAnim = {}, !.panAnimationFrame = 0, !.panAnimationComplete = 0,
              !.panX = defaultPanX, !.panY = defaultPanY]

stopPanAnimation(s) ==
    LET s1 == IF s.panAnimationFrame # 0
              THEN [cancelAnimationFrame(s, s.panAnimationFrame)
                       EXCEPT !.panAnimationFrame = 0]
              ELSE s
    IN [s1 EXCEPT !.panAnimationComplete = 0]

\* A stopPanInertia that leaves the inertia loop running.
stopPanInertiaSkipped(s, resetVelocity) == s

stopPanInertia(s, resetVelocity) ==
    LET s1 == IF s.panInertiaFrame # 0
              THEN [cancelAnimationFrame(s, s.panInertiaFrame)
                       EXCEPT !.panInertiaFrame = 0]
              ELSE s
    IN IF resetVelocity
       THEN [s1 EXCEPT !.panVelocityX = 0, !.panVelocityY = 0]
       ELSE s1

\* The table-only toggle: it stops the inertia and the animation of the map.
applyTableOnlyState(s) == stopPanAnimation(stopPanInertia(s, TRUE))

\* Math.hypot: Infinity if an argument is infinite, else NaN if one is NaN.
Hypot(a, b) ==
    IF IsFinite(a) /\ IsFinite(b) THEN Fl(Sqrt(a * a + b * b))
    ELSE IF a \in {PosInf, NegInf} \/ b \in {PosInf, NegInf} THEN PosInf
    ELSE NaN

\* A startPanInertia without the minimum-velocity test.
startPanInertiaAlways(s, t) ==
    LET s1 == stopPanInertia(s, FALSE)
        h == NewHandle(s1)
    IN [s1 EXCEPT !.rafInertia = @ \cup {[id |-> h, lastTime |-> t]},
                  !.panInertiaFrame = h]

startPanInertia(s, t) ==
    LET currentVelocity == Hypot(s.panVelocityX, s.panVelocityY)
    IN IF currentVelocity < minVelocity
       THEN stopPanInertia(s, TRUE)
       ELSE LET s1 == stopPanInertia(s, FALSE)
                h == NewHandle(s1)
            IN [s1 EXCEPT !.rafInertia = @ \cup {[id |-> h, lastTime |-> t]},
                          !.panInertiaFrame = h]

\* ------------------------------- the gesture closure (lines 137 to 310)
Called(s, f) == [s EXCEPT !.calls = @ \cup {f}]

getTouchDistance(touchA, touchB) ==
    Hypot(Sub(ClientX(touchA), ClientX(touchB)), Sub(ClientY(touchA), ClientY(touchB)))

getTouchMidpoint(touchA, touchB) ==
    [x |-> Half(Add(ClientX(touchA), ClientX(touchB))),
     y |-> Half(Add(ClientY(touchA), ClientY(touchB)))]

\* An updatePanForPinch that does not clamp the view origin.
updatePanForPinchUnclamped(s, targetZoom, centerClientX, centerClientY) ==
    LET rect == svgRect
    IN IF rect.width = 0 \/ rect.height = 0
       THEN updateViewBox([s EXCEPT !.currentZoom = targetZoom])
       ELSE
         LET vb == getViewBox(s)
             fractionX == clamp(Div(Sub(centerClientX, rect.left), rect.width), 0, Dec(1, 1))
             fractionY == clamp(Div(Sub(centerClientY, rect.top), rect.height), 0, Dec(1, 1))
             mapCenterX == Add(vb.x, Mul(vb.width, fractionX))
             mapCenterY == Add(vb.y, Mul(vb.height, fractionY))
             nextViewWidth == Div(baseWidth, targetZoom)
             nextViewHeight == Div(baseHeight, targetZoom)
             minViewX == 0
             minViewY == 0
             maxViewX == Max2(minViewX, Sub(baseWidth, nextViewWidth))
             maxViewY == Max2(minViewY, Sub(baseHeight, nextViewHeight))
             desiredViewX == Sub(mapCenterX, Mul(nextViewWidth, fractionX))
             desiredViewY == Sub(mapCenterY, Mul(nextViewHeight, fractionY))
             clampedViewX == desiredViewX
             clampedViewY == desiredViewY
         IN updateViewBox(
              [s EXCEPT !.currentZoom = targetZoom,
                        !.panX = Sub(Half(Sub(baseWidth, nextViewWidth)), clampedViewX),
                        !.panY = Sub(Half(Sub(baseHeight, nextViewHeight)), clampedViewY)])

updatePanForPinch(s, targetZoom, centerClientX, centerClientY) ==
    LET rect == svgRect
    IN IF rect.width = 0 \/ rect.height = 0
       THEN updateViewBox([s EXCEPT !.currentZoom = targetZoom])
       ELSE
         LET vb == getViewBox(s)
             fractionX == clamp(Div(Sub(centerClientX, rect.left), rect.width), 0, Dec(1, 1))
             fractionY == clamp(Div(Sub(centerClientY, rect.top), rect.height), 0, Dec(1, 1))
             mapCenterX == Add(vb.x, Mul(vb.width, fractionX))
             mapCenterY == Add(vb.y, Mul(vb.height, fractionY))
             nextViewWidth == Div(baseWidth, targetZoom)
             nextViewHeight == Div(baseHeight, targetZoom)
             minViewX == 0
             minViewY == 0
             maxViewX == Max2(minViewX, Sub(baseWidth, nextViewWidth))
             maxViewY == Max2(minViewY, Sub(baseHeight, nextViewHeight))
             desiredViewX == Sub(mapCenterX, Mul(nextViewWidth, fractionX))
             desiredViewY == Sub(mapCenterY, Mul(nextViewHeight, fractionY))
             clampedViewX == clamp(desiredViewX, minViewX, maxViewX)
             clampedViewY == clamp(desiredViewY, minViewY, maxViewY)
         IN updateViewBox(
              [s EXCEPT !.currentZoom = targetZoom,
                        !.panX = Sub(Half(Sub(baseWidth, nextViewWidth)), clampedViewX),
                        !.panY = Sub(Half(Sub(baseHeight, nextViewHeight)), clampedViewY)])

startPinch(s, tch) ==
    IF Len(tch) < 2 THEN s
    ELSE
      LET s1 == stopPanAnimation(stopPanInertia(Called(s, "startPinch"), TRUE))
          d == getTouchDistance(tch[1], tch[2])
      IN [s1 EXCEPT !.isPanning = FALSE,
                    !.pinchActive = TRUE,
                    !.pinchStartDistance = IF d = 0 \/ d = NaN THEN TinyDistance ELSE d,
                    !.pinchStartZoom = s1.currentZoom,
                    !.isMultiTouchGesture = TRUE]

resetPinchState(s) ==
    [s EXCEPT !.pinchActive = FALSE,
              !.pinchStartDistance = 0,
              !.pinchStartZoom = s.currentZoom,
              !.isMultiTouchGesture = FALSE]

\* distance / pinchStartDistance.  A quotient above 64 is kept at 64: the
\* zoom it leads to is clamped to maxZoom = 8 either way.
pinchScale(distance, startDistance) ==
    IF startDistance = TinyDistance THEN Dec(64, 1)
    ELSE Min2(Div(distance, startDistance), Dec(64, 1))

\* A handlePinchMove that scales the zoom of the move before.
handlePinchMoveIncremental(s, tch) ==
    IF ~s.pinchActive \/ Len(tch) < 2 \/ s.pinchStartDistance = 0 THEN s
    ELSE
      LET distance == getTouchDistance(tch[1], tch[2])
      IN IF distance = 0 \/ distance = NaN THEN s
         ELSE
           LET midpoint == getTouchMidpoint(tch[1], tch[2])
               scale == pinchScale(distance, s.pinchStartDistance)
               adjustedScale == Add(Dec(1, 1), Mul(Sub(scale, Dec(1, 1)), Dec(2, 1)))
               targetZoom == clamp(Mul(s.currentZoom, adjustedScale), minZoom, maxZoom)
           IN updatePanForPinch(Called(s, "handlePinchMove"), targetZoom, midpoint.x, midpoint.y)

handlePinchMove(s, tch) ==
    IF ~s.pinchActive \/ Len(tch) < 2 \/ s.pinchStartDistance = 0 THEN s
    ELSE
      LET distance == getTouchDistance(tch[1], tch[2])
      IN IF distance = 0 \/ distance = NaN THEN s
         ELSE
           LET midpoint == getTouchMidpoint(tch[1], tch[2])
               scale == pinchScale(distance, s.pinchStartDistance)
               adjustedScale == Add(Dec(1, 1), Mul(Sub(scale, Dec(1, 1)), Dec(2, 1)))
               targetZoom == clamp(Mul(s.pinchStartZoom, adjustedScale), minZoom, maxZoom)
           IN updatePanForPinch(Called(s, "handlePinchMove"), targetZoom, midpoint.x, midpoint.y)

\* A recordVelocity that does not clamp the sample.
recordVelocityUnclamped(s, clientX, clientY, t) ==
    LET deltaTime == t - s.lastPointerTime
        appliedMultiplier == Mul(getPanSpeedMultiplier(s), s.currentPanMultiplier)
        deltaPanX == Mul(Div(Sub(clientX, s.lastPointerX), s.currentZoom), appliedMultiplier)
        deltaPanY == Mul(Div(Sub(clientY, s.lastPointerY), s.currentZoom), appliedMultiplier)
        vx == PerMs(deltaPanX, deltaTime)
        vy == PerMs(deltaPanY, deltaTime)
        keep == Sub(Dec(1, 1), velocitySmoothing)
        s1 == IF s.lastPointerTime # 0 /\ deltaTime > 0
              THEN [s EXCEPT
                     !.panVelocityX = Add(Mul(s.panVelocityX, keep),
                                          Mul(vx, velocitySmoothing)),
                     !.panVelocityY = Add(Mul(s.panVelocityY, keep),
                                          Mul(vy, velocitySmoothing))]
              ELSE s
    IN [s1 EXCEPT !.lastPointerX = clientX, !.lastPointerY = clientY, !.lastPointerTime = t]

recordVelocity(s, clientX, clientY, t) ==
    LET deltaTime == t - s.lastPointerTime
        appliedMultiplier == Mul(getPanSpeedMultiplier(s), s.currentPanMultiplier)
        deltaPanX == Mul(Div(Sub(clientX, s.lastPointerX), s.currentZoom), appliedMultiplier)
        deltaPanY == Mul(Div(Sub(clientY, s.lastPointerY), s.currentZoom), appliedMultiplier)
        vx == PerMs(deltaPanX, deltaTime)
        vy == PerMs(deltaPanY, deltaTime)
        keep == Sub(Dec(1, 1), velocitySmoothing)
        s1 == IF s.lastPointerTime # 0 /\ deltaTime > 0
              THEN [s EXCEPT
                     !.panVelocityX = Add(Mul(s.panVelocityX, keep),
                                          Mul(Max2(-velocityMax, Min2(velocityMax, vx)), velocitySmoothing)),
                     !.panVelocityY = Add(Mul(s.panVelocityY, keep),
                                          Mul(Max2(-velocityMax, Min2(velocityMax, vy)), velocitySmoothing))]
              ELSE s
    IN [s1 EXCEPT !.lastPointerX = clientX, !.lastPointerY = clientY, !.lastPointerTime = t]

\* A beginPan that keeps the origin of the drag before.
beginPanStaleOrigin(s, clientX, clientY, inputType, t) ==
    LET s1 == [Called(s, "beginPan") EXCEPT
                 !.isPanning = TRUE,
                 !.panInputType = inputType,
                 !.currentPanMultiplier = IF inputType = "touch" THEN TOUCH_PAN_MULTIPLIER ELSE Dec(1, 1)]
        s2 == stopPanAnimation(stopPanInertia(s1, TRUE))
        s3 == [s2 EXCEPT !.lastPointerTime = 0, !.lastPointerX = clientX, !.lastPointerY = clientY]
    IN recordVelocity(s3, clientX, clientY, t)

beginPan(s, clientX, clientY, inputType, t) ==
    LET s1 == [Called(s, "beginPan") EXCEPT
                 !.isPanning = TRUE,
                 !.panInputType = inputType,
                 !.currentPanMultiplier = IF inputType = "touch" THEN TOUCH_PAN_MULTIPLIER ELSE Dec(1, 1),
                 !.startX = clientX,
                 !.startY = clientY,
                 !.initialPanX = s.panX,
                 !.initialPanY = s.panY]
        s2 == stopPanAnimation(stopPanInertia(s1, TRUE))
        s3 == [s2 EXCEPT !.lastPointerTime = 0, !.lastPointerX = clientX, !.lastPointerY = clientY]
    IN recordVelocity(s3, clientX, clientY, t)

\* An updatePan that adds the movement to the pan of the update before.
updatePanAccumulating(s, clientX, clientY, t) ==
    LET appliedMultiplier == Mul(getPanSpeedMultiplier(s), s.currentPanMultiplier)
        dx == Mul(Div(Sub(clientX, s.startX), s.currentZoom), appliedMultiplier)
        dy == Mul(Div(Sub(clientY, s.startY), s.currentZoom), appliedMultiplier)
        s1 == updateViewBox([Called(s, "updatePan") EXCEPT
                               !.panX = Add(s.panX, dx),
                               !.panY = Add(s.panY, dy)])
    IN recordVelocity(s1, clientX, clientY, t)

updatePan(s, clientX, clientY, t) ==
    LET appliedMultiplier == Mul(getPanSpeedMultiplier(s), s.currentPanMultiplier)
        dx == Mul(Div(Sub(clientX, s.startX), s.currentZoom), appliedMultiplier)
        dy == Mul(Div(Sub(clientY, s.startY), s.currentZoom), appliedMultiplier)
        s1 == updateViewBox([Called(s, "updatePan") EXCEPT
                               !.panX = Add(s.initialPanX, dx),
                               !.panY = Add(s.initialPanY, dy)])
    IN recordVelocity(s1, clientX, clientY, t)

\* An endPan that boosts the velocity whatever the age of the last sample.
endPanAlwaysBoosts(s, skipInertia, t) ==
    IF ~s.isPanning THEN s
    ELSE
      LET s1 == [Called(s, "endPan") EXCEPT
                   !.isPanning = FALSE,
                   !.panInputType = "mouse",
                   !.currentPanMultiplier = Dec(1, 1)]
          flick == s1.lastPointerTime # 0
          s2 == IF flick
                THEN [s1 EXCEPT
                        !.panVelocityX = Max2(-flickMax, Min2(flickMax, Mul(s1.panVelocityX, flickMultiplier))),
                        !.panVelocityY = Max2(-flickMax, Min2(flickMax, Mul(s1.panVelocityY, flickMultiplier)))]
                ELSE s1
      IN IF skipInertia THEN s1 ELSE startPanInertia(s2, t)

endPan(s, skipInertia, t) ==
    IF ~s.isPanning THEN s
    ELSE
      LET s1 == [Called(s, "endPan") EXCEPT
                   !.isPanning = FALSE,
                   !.panInputType = "mouse",
                   !.currentPanMultiplier = Dec(1, 1)]
          flick == s1.lastPointerTime # 0 /\ t - s1.lastPointerTime <= flickWindowMs
          s2 == IF flick
                THEN [s1 EXCEPT
                        !.panVelocityX = Max2(-flickMax, Min2(flickMax, Mul(s1.panVelocityX, flickMultiplier))),
                        !.panVelocityY = Max2(-flickMax, Min2(flickMax, Mul(s1.panVelocityY, flickMultiplier)))]
                ELSE s1
      IN IF skipInertia THEN s1 ELSE startPanInertia(s2, t)

\* ------------------------------------------- class methods (557 to 942)
\* clearTimeout(handle): the timer is no longer pending.
clearTimeout(s, handle) ==
    [s EXCEPT !.timeouts = {h \in @ : h.id # handle},
              !.posterTimeouts = {h \in @ : h.id # handle}]

\* A hideInfo that forgets its timer without cancelling it.
hideInfoKeepsTimer(s) ==
    [s EXCEPT !.infoAutoHideTimer = 0,
              !.posterInfoTimer = 0,
              !.infoActive = FALSE,
              !.selectedArea = 0]

hideInfo(s) ==
    LET s1 == IF s.infoAutoHideTimer # 0 THEN clearTimeout(s, s.infoAutoHideTimer) ELSE s
        s2 == IF s1.posterInfoTimer # 0 THEN clearTimeout(s1, s1.posterInfoTimer) ELSE s1
    IN [s2 EXCEPT !.infoAutoHideTimer = 0,
                  !.posterInfoTimer = 0,
                  !.infoActive = FALSE,
                  !.selectedArea = 0]

showAreaInfo(s, area, interactionType, t) ==
    LET s1 == IF s.infoAutoHideTimer # 0
              THEN [clearTimeout(s, s.infoAutoHideTimer) EXCEPT !.infoAutoHideTimer = 0]
              ELSE s
        s2 == [s1 EXCEPT !.infoActive = TRUE]
        handle == s2.timerIssued + 1
    IN IF interactionType # "touch"
       THEN [s2 EXCEPT !.timerIssued = handle,
                       !.infoAutoHideTimer = handle,
                       !.timeouts = @ \cup {[id |-> handle, due |-> t + infoAutoHideMs]}]
       ELSE s2

\* The callback of the auto-hide timer h.
infoAutoHideCallback(s, h) ==
    LET s1 == [s EXCEPT !.timeouts = @ \ {h}]
    IN IF s1.infoActive THEN hideInfo(s1) ELSE s1

\* Delay of the auto-hide timer of a marker's poster information, in ms.
posterInfoHideMs == 8000

\* showPosterInfo of a poster mount's side indicator (a marker): it shows the
\* panel, clears the timer in posterMap.infoTimer and arms a new one there.
showPosterInfo(s, t) ==
    LET s1 == [s EXCEPT !.infoActive = TRUE]
        s2 == IF s1.infoTimer # 0 THEN clearTimeout(s1, s1.infoTimer) ELSE s1
        handle == s2.timerIssued + 1
    IN [s2 EXCEPT !.timerIssued = handle,
                  !.infoTimer = handle,
                  !.posterTimeouts = @ \cup {[id |-> handle, due |-> t + posterInfoHideMs]}]

\* The callback of the marker timer h: it removes 'active' from the panel.
posterInfoTimerCallback(s, h) ==
    [s EXCEPT !.posterTimeouts = @ \ {h}, !.infoActive = FALSE]

\* A selectArea that always shows the area, selected already or not.
selectAreaAlwaysShows(s, areaId, interactionType, t) ==
    showAreaInfo([s EXCEPT !.selectedArea = areaId], areaId, interactionType, t)

selectArea(s, areaId, interactionType, t) ==
    LET closedBefore == s.lastClosedAreaId = areaId
        s1 == IF closedBefore
              THEN [s EXCEPT !.lastClosedAreaId = 0, !.lastClosedInteractionType = "none"]
              ELSE s
    IN IF closedBefore /\ s.lastClosedInteractionType = "touch" /\ t - s.lastClosedTime < 350
       THEN s
       ELSE IF s1.selectedArea = areaId /\ s1.infoActive
       THEN [hideInfo(s1) EXCEPT !.lastClosedAreaId = areaId,
                                 !.lastClosedTime = t,
                                 !.lastClosedInteractionType = interactionType]
       ELSE showAreaInfo([s1 EXCEPT !.selectedArea = areaId], areaId, interactionType, t)

\* The info panel's own pointerdown and click listener.
closeInfoOnPanelInteraction(s) == IF ~s.infoActive THEN s ELSE hideInfo(s)

\* A zoomIn that returns the view to its default position.
zoomInRecentred(s) ==
    LET s1 == stopPanAnimation(stopPanInertia(Called(s, "zoomIn"), TRUE))
    IN updateViewBox([s1 EXCEPT !.currentZoom = Min2(maxZoom, Mul(s1.currentZoom, Dec(12, 10))),
                                !.panX = defaultPanX, !.panY = defaultPanY])

zoomIn(s) ==
    LET s1 == stopPanAnimation(stopPanInertia(Called(s, "zoomIn"), TRUE))
    IN updateViewBox([s1 EXCEPT !.currentZoom = Min2(maxZoom, Mul(s1.currentZoom, Dec(12, 10)))])

zoomOut(s) ==
    LET s1 == stopPanAnimation(stopPanInertia(Called(s, "zoomOut"), TRUE))
        nextZoom == Max2(minZoom, Min2(maxZoom, Div(s1.currentZoom, Dec(12, 10))))
    IN updateViewBox([s1 EXCEPT !.currentZoom = nextZoom])

resetView(s) ==
    LET s1 == stopPanAnimation(stopPanInertia(Called(s, "resetView"), TRUE))
    IN hideInfo(updateViewBox([s1 EXCEPT !.currentZoom = Dec(1, 1),
                                         !.panX = defaultPanX,
                                         !.panY = defaultPanY]))

\* focus is a pair of fractions (1/1024 units); the default is the centre.
\* A calculatePanForCoordinates that always centres the target.
calculatePanForCoordinatesCentred(s, x, y, focus) ==
    LET width == Div(baseWidth, s.currentZoom)
        height == Div(baseHeight, s.currentZoom)
        maxX == Max2(0, Sub(baseWidth, width))
        maxY == Max2(0, Sub(baseHeight, height))
        clampedX == Min2(Max2(Sub(x, Half(width)), 0), maxX)
        clampedY == Min2(Max2(Sub(y, Half(height)), 0), maxY)
    IN [panX |-> Sub(Half(Sub(baseWidth, width)), clampedX),
        panY |-> Sub(Half(Sub(baseHeight, height)), clampedY)]

calculatePanForCoordinates(s, x, y, focus) ==
    LET width == Div(baseWidth, s.currentZoom)
        height == Div(baseHeight, s.currentZoom)
        minX == 0
        minY == 0
        maxX == Max2(minX, Sub(baseWidth, width))
        maxY == Max2(minY, Sub(baseHeight, height))
        clampFraction(value) == IF ~IsFinite(value) THEN Dec(1, 2) ELSE Min2(Max2(value, 0), Dec(1, 1))
        focusX == clampFraction(focus.x)
        focusY == clampFraction(focus.y)
        desiredX == Sub(x, Mul(width, focusX))
        desiredY == Sub(y, Mul(height, focusY))
        clampedX == Min2(Max2(desiredX, minX), maxX)
        clampedY == Min2(Max2(desiredY, minY), maxY)
    IN [panX |-> Sub(Half(Sub(baseWidth, width)), clampedX),
        panY |-> Sub(Half(Sub(baseHeight, height)), clampedY)]

\* The caller's onComplete: it is handed over as a callback id (0: none)
\* and its invocation is recorded with what it can observe.
invokeCallback(s, cb, target) ==
    [s EXCEPT !.invoked = Append(@, [cb |-> cb, panX |-> s.panX, panY |-> s.panY,
                                     frame |-> s.panAnimationFrame,
                                     targetPanX |-> target.panX,
                                     targetPanY |-> target.panY])]

animatePan(s, targetPanX, targetPanY, duration, onComplete, t) ==
    LET h == NewHandle(s)
    IN [Called(s, "animatePan") EXCEPT
          !.panAnimationComplete = onComplete,
          !.rafAnim = @ \cup {[id |-> h, startPanX |-> s.panX, startPanY |-> s.panY,
                               targetPanX |-> targetPanX, targetPanY |-> targetPanY,
                               startTime |-> t, duration |-> duration]},
          !.panAnimationFrame = h]

\* One run of animatePan's step, for the pending callback c at time t.
animatePanStep(s, c, t) ==
    LET s0 == [s EXCEPT !.rafAnim = @ \ {c}]
        elapsed == t - c.startTime
        progress == Min2(Fl(RoundDiv(elapsed * 1024, c.duration)), Dec(1, 1))
        eased == IF progress < Dec(1, 2)
                 THEN Mul(Mul(Dec(2, 1), progress), progress)
                 ELSE Add(-Dec(1, 1), Mul(Sub(Dec(4, 1), Mul(Dec(2, 1), progress)), progress))
        s1 == updateViewBox(
                [s0 EXCEPT !.panX = Add(c.startPanX, Mul(Sub(c.targetPanX, c.startPanX), eased)),
                           !.panY = Add(c.startPanY, Mul(Sub(c.targetPanY, c.startPanY), eased))])
    IN IF progress < Dec(1, 1)
       THEN LET h == NewHandle(s1)
            IN [s1 EXCEPT !.rafAnim = @ \cup {[c EXCEPT !.id = h]},
                          !.panAnimationFrame = h]
       ELSE LET s2 == [s1 EXCEPT !.panAnimationFrame = 0]
            IN IF s2.panAnimationComplete # 0
               THEN invokeCallback([s2 EXCEPT !.panAnimationComplete = 0],
                                   s2.panAnimationComplete,
                                   [panX |-> c.targetPanX, panY |-> c.targetPanY])
               ELSE s2

\* A centerOnCoordinates that sets the zoom to minZoom, lower or not.
centerOnCoordinatesSetsZoom(s, x, y, opt, mobile, t) ==
    LET defaultMobileFocusZoom == Dec(21, 10)
        s1 == IF opt.minZoom # 0 /\ IsFinite(opt.minZoom)
              THEN [s EXCEPT !.currentZoom = Min2(maxZoom, opt.minZoom)]
              ELSE IF mobile /\ s.currentZoom < defaultMobileFocusZoom
              THEN [s EXCEPT !.currentZoom = Min2(maxZoom, defaultMobileFocusZoom)]
              ELSE s
        s2 == stopPanAnimation(stopPanInertia(Called(s1, "centerOnCoordinates"), TRUE))
        targetPan == calculatePanForCoordinates(s2, x, y, opt.focus)
    IN IF ~IsFinite(x) \/ ~IsFinite(y) THEN s
       ELSE IF opt.animate /\ opt.duration > 0
       THEN animatePan(s2, targetPan.panX, targetPan.panY, opt.duration, opt.onComplete, t)
       ELSE LET s3 == updateViewBox([s2 EXCEPT !.panX = targetPan.panX, !.panY = targetPan.panY])
            IN IF opt.onComplete # 0
               THEN invokeCallback(s3, opt.onComplete, targetPan)
               ELSE s3

\* opt: [animate, duration, onComplete, minZoom, focus]; minZoom = 0 and
\* onComplete = 0 stand for an option that is not given.  mobile is the
\* result of matchMedia('(max-width: 768px)').
centerOnCoordinates(s, x, y, opt, mobile, t) ==
    LET defaultMobileFocusZoom == Dec(21, 10)
        s1 == IF opt.minZoom # 0 /\ IsFinite(opt.minZoom)
              THEN [s EXCEPT !.currentZoom = Min2(maxZoom, Max2(s.currentZoom, opt.minZoom))]
              ELSE IF mobile /\ s.currentZoom < defaultMobileFocusZoom
              THEN [s EXCEPT !.currentZoom = Min2(maxZoom, defaultMobileFocusZoom)]
              ELSE s
        s2 == stopPanAnimation(stopPanInertia(Called(s1, "centerOnCoordinates"), TRUE))
        targetPan == calculatePanForCoordinates(s2, x, y, opt.focus)
    IN IF ~IsFinite(x) \/ ~IsFinite(y) THEN s
       ELSE IF opt.animate /\ opt.duration > 0
       THEN animatePan(s2, targetPan.panX, targetPan.panY, opt.duration, opt.onComplete, t)
       ELSE LET s3 == updateViewBox([s2 EXCEPT !.panX = targetPan.panX, !.panY = targetPan.panY])
            IN IF opt.onComplete # 0
               THEN invokeCallback(s3, opt.onComplete, targetPan)
               ELSE s3

\* v * dt for a velocity v and dt in ms, on the pixel grid.
Travel(v, dt) == IF IsFinite(v) THEN Fl(RoundDiv(v * dt, 2048)) ELSE v
\* Math.pow(decay, dt / 16); the clock moves in multiples of 16 ms.
decayFactor(dt) == Fl(PowInt(decay, dt \div 16))

\* A step that stops below minVelocity without resetting the velocity.
panInertiaStepKeepsVelocity(s, c, t) ==
    LET s0 == [s EXCEPT !.rafInertia = @ \ {c}]
        dt == t - c.lastTime
        s1 == updateViewBox([s0 EXCEPT !.panX = Add(s0.panX, Travel(s0.panVelocityX, dt)),
                                       !.panY = Add(s0.panY, Travel(s0.panVelocityY, dt))])
        s2 == [s1 EXCEPT !.panVelocityX = Mul(@, decayFactor(dt)),
                         !.panVelocityY = Mul(@, decayFactor(dt))]
    IN IF Hypot(s2.panVelocityX, s2.panVelocityY) < minVelocity
       THEN stopPanInertia(s2, FALSE)
       ELSE LET h == NewHandle(s2)
            IN [s2 EXCEPT !.rafInertia = @ \cup {[id |-> h, lastTime |-> t]},
                          !.panInertiaFrame = h]

\* One run of startPanInertia's step, for the pending callback c at time t.
panInertiaStep(s, c, t) ==
    LET s0 == [s EXCEPT !.rafInertia = @ \ {c}]
        dt == t - c.lastTime
        s1 == updateViewBox([s0 EXCEPT !.panX = Add(s0.panX, Travel(s0.panVelocityX, dt)),
                                       !.panY = Add(s0.panY, Travel(s0.panVelocityY, dt))])
        s2 == [s1 EXCEPT !.panVelocityX = Mul(@, decayFactor(dt)),
                         !.panVelocityY = Mul(@, decayFactor(dt))]
    IN IF Hypot(s2.panVelocityX, s2.panVelocityY) < minVelocity
       THEN stopPanInertia(s2, TRUE)
       ELSE LET h == NewHandle(s2)
            IN [s2 EXCEPT !.rafInertia = @ \cup {[id |-> h, lastTime |-> t]},
                          !.panInertiaFrame = h]

\* ------------------------------------ event listeners (lines 82 to 544)
isInteractiveElement(el) == el \in {"marker", "tablePanel"}

mousedownListener(s, p, t) ==
    IF ~isInteractiveElement(ElementAt(p))
    THEN beginPan(s, ClientX(p), ClientY(p), "mouse", t)
    ELSE s

mousemoveListener(s, p, t) ==
    IF ~s.isPanning THEN s ELSE updatePan(s, ClientX(p), ClientY(p), t)

mouseupListener(s, t) == endPan(s, FALSE, t)

\* document touchstart: a touch outside markers, poster areas and the info
\* panel closes the info panel.
handleGlobalTouchStart(s, tch, target) ==
    IF Len(tch) > 1 THEN s
    ELSE IF ElementAt(target) = "marker" THEN s
    ELSE IF ElementAt(target) = "posterArea" THEN s
    ELSE IF ElementAt(target) = "infoPanel" THEN s
    ELSE hideInfo(s)

\* The click listeners for a click at p: the poster area's or the marker's
\* own, then the svg's.
svgClickListener(s, p) == IF ElementAt(p) = "marker" THEN s ELSE hideInfo(s)
clickListeners(s, p, t) ==
    IF ElementAt(p) = "infoPanel" THEN closeInfoOnPanelInteraction(s)
    ELSE IF ElementAt(p) = "posterArea"
    THEN svgClickListener(selectArea(s, AreaIdAt(p), "mouse", t), p)
    ELSE IF ElementAt(p) = "marker"
    THEN svgClickListener(showPosterInfo(s, t), p)
    ELSE svgClickListener(s, p)

\* The keydown listener of the document, for Enter or space on the focused
\* poster area.
keydownListener(s, areaId, t) == selectArea(s, areaId, "keyboard", t)

touchStartHandler(s, tch, t) ==
    IF Len(tch) >= 2
    THEN startPinch([s EXCEPT !.isMultiTouchGesture = TRUE], tch)
    ELSE IF Len(tch) # 1 THEN s
    ELSE
      LET touch == tch[1]
          touchTarget == ElementAt(touch)
      IN IF touchTarget = "tablePanel"
         THEN [stopPanInertia(s, TRUE) EXCEPT !.isPanning = FALSE]
         ELSE IF touchTarget # "marker"
         THEN beginPan(resetPinchState(s), ClientX(touch), ClientY(touch), "touch", t)
         ELSE s

touchMoveHandler(s, tch, t) ==
    IF Len(tch) >= 2
    THEN LET s1 == IF ~s.pinchActive THEN startPinch(s, tch) ELSE s
         IN handlePinchMove([s1 EXCEPT !.isMultiTouchGesture = TRUE], tch)
    ELSE
      LET s1 == IF s.pinchActive THEN resetPinchState(s) ELSE s
          abort == IF s1.isPanning
                   THEN endPan(stopPanAnimation(stopPanInertia(s1, TRUE)), TRUE, t)
                   ELSE s1
      IN IF Len(tch) # 1 THEN abort
         ELSE IF ElementAt(tch[1]) = "tablePanel" THEN abort
         ELSE IF ~s1.isPanning THEN s1
         ELSE updatePan(s1, ClientX(tch[1]), ClientY(tch[1]), t)

\* Date.now() runs on the epoch clock, far ahead of performance.now().
DateNow(t) == t + 1000000

handleTouchEnd(s, tch, changedTouchCount, t) ==
    LET touchCount == Len(tch)
        endedAllTouches == touchCount = 0
        isSingleFingerRelease == ~s.pinchActive /\ endedAllTouches /\ changedTouchCount = 1
        suppressed == isSingleFingerRelease /\ DateNow(t) - s.lastTouchEndTime <= doubleTapThresholdMs
        s1 == [s EXCEPT !.lastTouchEndTime = IF isSingleFingerRelease \/ endedAllTouches
                                             THEN DateNow(t) ELSE @,
                        !.defaultPrevented = suppressed]
        finish(u) == IF endedAllTouches
                     THEN endPan([u EXCEPT !.isMultiTouchGesture = FALSE], FALSE, t)
                     ELSE u
    IN IF s1.pinchActive /\ touchCount < 2
       THEN LET s2 == resetPinchState(s1)
            IN IF touchCount = 1
               THEN LET remainingTouch == tch[1]
                        remainingTarget == ElementAt(remainingTouch)
                    IN IF remainingTarget = "tablePanel"
                       THEN [stopPanInertia(s2, TRUE) EXCEPT !.isPanning = FALSE]
                       ELSE IF remainingTarget # "marker"
                       THEN finish(beginPan(s2, ClientX(remainingTouch), ClientY(remainingTouch), "touch", t))
                       ELSE finish(s2)
               ELSE finish(s2)
       ELSE finish(s1)

\* An intensity such as 0.0012 in 1/2^20 units.
Micro(num, den) == Fl(RoundDiv(num * 1048576, den))

\* ev: [deltaY, deltaMode, ctrlKey], deltaY a whole number of pixels,
\* lines or pages.
wheelListener(s, ev) ==
    LET s1 == stopPanInertia(Called(s, "wheel"), TRUE)
        modeMultiplier == IF ev.deltaMode = 1 THEN 20 ELSE IF ev.deltaMode = 2 THEN 60 ELSE 1
        normalizedDelta == IF IsFinite(ev.deltaY) THEN ev.deltaY * modeMultiplier ELSE ev.deltaY
        WHEEL_INTENSITY == Micro(12, 10000)
        PINCH_BASE_INTENSITY == Micro(35, 10000)
        PINCH_GAIN == Dec(2, 1)
        absDelta == Min2(240, Abs(normalizedDelta))
        deltaFactor == Add(Dec(1, 1), Dec(absDelta, 120))
        zoomRange == Max2(Sub(maxZoom, minZoom), Dec(1, 10000))
        zoomNormalized == Div(Sub(s1.currentZoom, minZoom), zoomRange)
        zoomFactorGain == Add(Dec(9, 10), Mul(zoomNormalized, Dec(12, 10)))
        intensity == IF ev.ctrlKey
                     THEN Mul(Mul(Mul(PINCH_BASE_INTENSITY, PINCH_GAIN), deltaFactor), zoomFactorGain)
                     ELSE WHEEL_INTENSITY
        zoomFactor == Exp(IF IsFinite(normalizedDelta)
                          THEN RoundDiv(-normalizedDelta * intensity, 1024)
                          ELSE Neg(normalizedDelta))
        newZoom == Min2(maxZoom, Max2(minZoom, Mul(s1.currentZoom, zoomFactor)))
    IN IF normalizedDelta = 0 \/ normalizedDelta = NaN THEN s1
       ELSE IF newZoom # s1.currentZoom
       THEN updateViewBox([s1 EXCEPT !.currentZoom = newZoom])
       ELSE s1

\* ------------------------------------------------------- state machine
\* Inputs of the events.
WheelInputs ==
    {[deltaY |-> -100, deltaMode |-> 0, ctrlKey |-> FALSE],
     [deltaY |-> 0, deltaMode |-> 0, ctrlKey |-> FALSE],
     [deltaY |-> 3, deltaMode |-> 1, ctrlKey |-> TRUE]}
centreFocus == [x |-> Dec(1, 2), y |-> Dec(1, 2)]
\* Calls of centerOnCoordinates: the target (map pixels), the options and
\* whether the mobile media query matches.
CenterInputs ==
    {[x |-> 325, y |-> 0, animate |-> TRUE, duration |-> 32, callback |-> TRUE,
      minZoom |-> Dec(3, 1), focus |-> centreFocus, mobile |-> FALSE],
     [x |-> 900, y |-> 300, animate |-> TRUE, duration |-> 32, callback |-> FALSE,
      minZoom |-> 0, focus |-> centreFocus, mobile |-> FALSE],
     [x |-> 0, y |-> 0, animate |-> TRUE, duration |-> 0, callback |-> TRUE,
      minZoom |-> Dec(20, 1), focus |-> centreFocus, mobile |-> FALSE],
     [x |-> 900, y |-> 300, animate |-> FALSE, duration |-> 32, callback |-> TRUE,
      minZoom |-> 0, focus |-> centreFocus, mobile |-> TRUE]}

\* The constructor (lines 26 to 53) and the closure's declarations (138 to
\* 157).  startX, startY, initialPanX and initialPanY are declared without a
\* value and written by beginPan before updatePan reads them.
InitState ==
    updateViewBox(
      [currentZoom |-> Dec(1, 1), panX |-> defaultPanX, panY |-> defaultPanY,
       panVelocityX |-> 0, panVelocityY |-> 0,
       panInertiaFrame |-> 0, panAnimationFrame |-> 0, panAnimationComplete |-> 0,
       selectedArea |-> 0, isMultiTouchGesture |-> FALSE,
       infoAutoHideTimer |-> 0, posterInfoTimer |-> 0, infoActive |-> FALSE,
       lastClosedAreaId |-> 0, lastClosedTime |-> 0, lastClosedInteractionType |-> "none",
       timeouts |-> {}, timerIssued |-> 0,
       infoTimer |-> 0, posterTimeouts |-> {},
       layoutElements |-> {}, domNodes |-> {}, nodesCreated |-> 0,
       svgCache |-> {}, svgPending |-> {}, svgCalls |-> 0, svgReturned |-> <<>>,
       fetchLog |-> <<>>,
       tsvText |-> <<>>, posters |-> <<>>,
       viewBox |-> [x |-> 0, y |-> 0, width |-> 0, height |-> 0],
       isPanning |-> FALSE, startX |-> 0, startY |-> 0, initialPanX |-> 0, initialPanY |-> 0,
       lastPointerX |-> 0, lastPointerY |-> 0, lastPointerTime |-> 0,
       pinchActive |-> FALSE, pinchStartDistance |-> 0, pinchStartZoom |-> Dec(1, 1),
       lastTouchEndTime |-> 0, panInputType |-> "mouse", currentPanMultiplier |-> Dec(1, 1),
       rafAnim |-> {}, rafInertia |-> {},
       issued |-> 0, invoked |-> <<>>, defaultPrevented |-> FALSE, calls |-> {}])

\* What is running in state s: the sessions and loops of the engine.
Running(s) ==
    [panning |-> s.isPanning, pinch |-> s.pinchActive,
     inertia |-> s.panInertiaFrame # 0, animation |-> s.panAnimationFrame # 0,
     callback |-> s.panAnimationComplete # 0, info |-> s.infoActive]

Init ==
    /\ st = InitState
    /\ touches = <<>>
    /\ now = 16
    /\ steps = 0
    /\ frames = 0
    /\ hist = [op |-> "init", arg |-> <<>>, calls |-> {}, pre |-> Running(InitState)]

\* An event op with input arg arrives at time t and is handled: the program
\* goes from st to s2 and the fingers on the screen become tch.  An event
\* that changes nothing is a stuttering step.
Record(op, arg, s2, tch, t) ==
    /\ st' = [s2 EXCEPT !.calls = {}]
    /\ touches' = tch
    /\ now' = t
    /\ hist' = [op |-> op, arg |-> arg, calls |-> s2.calls, pre |-> Running(st)]

Handled(op, arg, s2, tch, t) ==
    /\ steps < MaxSteps
    /\ IF [s2 EXCEPT !.calls = {}] = st /\ tch = touches
       THEN UNCHANGED vars
       ELSE /\ steps' = steps + 1
            /\ Record(op, arg, s2, tch, t)
            /\ UNCHANGED frames

\* The browser runs a frame callback.
Frame(op, arg, s2, t) ==
    /\ frames < MaxFrames
    /\ frames' = frames + 1
    /\ Record(op, arg, s2, touches, t)
    /\ UNCHANGED steps

\* event.touches after a finger lands at p, after finger i moves to p, and
\* after the fingers in gone leave the screen.
Landed(p) == Append(touches, p)
Moved(i, p) == [touches EXCEPT ![i] = p]
Lifted(gone) ==
    SelectSeq([i \in 1..Len(touches) |-> IF i \in gone THEN <<>> ELSE touches[i]],
              LAMBDA e : e # <<>>)

\* The program after the touchstart of a finger landing at p: document's
\* listener, then the svg's when the touch starts inside the svg.
touchstartListeners(s, p, onSvg, t) ==
    LET s1 == handleGlobalTouchStart(s, Landed(p), p)
    IN IF onSvg THEN touchStartHandler(s1, Landed(p), t) ELSE s1

MouseDown ==
    \E p \in Positions, d \in EventGaps :
        Handled("mousedown", p, mousedownListener(st, p, now + d), touches, now + d)

MouseMove ==
    \E p \in Positions, d \in EventGaps :
        Handled("mousemove", p, mousemoveListener(st, p, now + d), touches, now + d)

MouseUp ==
    \E d \in EventGaps :
        Handled("mouseup", <<>>, mouseupListener(st, now + d), touches, now + d)

\* A finger lands at p.  A touch on the table panel may start outside the
\* svg.
TouchStart ==
    \E p \in Positions, onSvg \in BOOLEAN, d \in EventGaps :
        /\ Len(touches) < MaxTouches
        /\ onSvg \/ ElementAt(p) = "tablePanel"
        /\ Handled("touchstart", <<p, onSvg>>,
                   touchstartListeners(st, p, onSvg, now + d), Landed(p), now + d)

\* Finger i moves to p (or stays where it is).
TouchMove ==
    \E i \in 1..Len(touches), p \in Positions, d \in EventGaps :
        Handled("touchmove", <<i, p>>,
                touchMoveHandler(st, Moved(i, p), now + d), Moved(i, p), now + d)

\* touchend and touchcancel: the fingers in gone leave the screen.
TouchEnd ==
    \E gone \in (SUBSET (1..Len(touches))) \ {{}}, d \in EventGaps :
        Handled("touchend", gone,
                handleTouchEnd(st, Lifted(gone), Cardinality(gone), now + d),
                Lifted(gone), now + d)

Wheel ==
    \E ev \in WheelInputs, d \in EventGaps :
        Handled("wheel", ev, wheelListener(st, ev), touches, now + d)

ZoomIn == \E d \in EventGaps : Handled("zoomIn", <<>>, zoomIn(st), touches, now + d)

ZoomOut == \E d \in EventGaps : Handled("zoomOut", <<>>, zoomOut(st), touches, now + d)

ResetView == \E d \in EventGaps : Handled("resetView", <<>>, resetView(st), touches, now + d)

\* The selection/search subsystem calls centerOnCoordinates.
CenterOn ==
    \E c \in CenterInputs, d \in EventGaps :
        LET cb == IF c.callback THEN st.issued + 1 ELSE 0
            opt == [animate |-> c.animate, duration |-> c.duration, onComplete |-> cb,
                    minZoom |-> c.minZoom, focus |-> c.focus]
            s0 == [st EXCEPT !.issued = IF c.callback THEN @ + 1 ELSE @]
        IN Handled("centerOn", c,
                   centerOnCoordinates(s0, Px(c.x), Px(c.y), opt, c.mobile, now + d),
                   touches, now + d)

\* The browser runs a pending animation-frame callback.
AnimFrame ==
    \E c \in st.rafAnim, d \in EventGaps :
        Frame("animFrame", c, animatePanStep(st, c, now + d), now + d)

InertiaFrame ==
    \E c \in st.rafInertia, d \in EventGaps :
        Frame("inertiaFrame", c, panInertiaStep(st, c, now + d), now + d)

\* Nothing happens for a while.
Wait ==
    \E d \in LongWait :
        /\ steps < MaxSteps
        /\ steps' = steps + 1
        /\ now' = now + d
        /\ UNCHANGED <<st, touches, frames, hist>>

Next ==
    \/ MouseDown \/ MouseMove \/ MouseUp
    \/ TouchStart \/ TouchMove \/ TouchEnd
    \/ Wheel \/ ZoomIn \/ ZoomOut \/ ResetView
    \/ CenterOn \/ AnimFrame \/ InertiaFrame
    \/ Wait

Spec == Init /\ [][Next]_vars

\* ------------------------------------------------------------ properties
\* The handler that has just run started a drag or a pinch.
GestureStarted(calls) == "beginPan" \in calls \/ "startPinch" \in calls

\* Nothing of an inertia loop or a centering animation is left in s.
LoopsCancelled(s) ==
    /\ s.panInertiaFrame = 0 /\ s.rafInertia = {}
    /\ s.panAnimationFrame = 0 /\ s.rafAnim = {}
    /\ s.panAnimationComplete = 0
    /\ s.panVelocityX = 0 /\ s.panVelocityY = 0

\* The states a pointer-down or a lifted finger leads to from the current
\* state: the events that can begin a drag or a pinch and do nothing else.
AfterPointerEvent ==
    UNION {
        {mousedownListener(st, p, now + d) : p \in Positions}
        \cup {touchstartListeners(st, p, TRUE, now + d) :
                p \in {q \in Positions : Len(touches) < MaxTouches}}
        \cup {handleTouchEnd(st, Lifted(gone), Cardinality(gone), now + d) :
                gone \in (SUBSET (1..Len(touches))) \ {{}}}
        : d \in EventGaps}

\* The states a touchmove leads to from the current state; with two
\* fingers and no pinch yet it starts one and then zooms.
AfterTouchMove ==
    UNION {{touchMoveHandler(st, Moved(i, p), now + d) :
                i \in 1..Len(touches), p \in Positions} : d \in EventGaps}

AfterGestureEvent == AfterPointerEvent \cup AfterTouchMove

\* C1: in every reachable state, whatever wheel events, pinch moves, zoomIn,
\* zoomOut, centerOnCoordinates (with or without minZoom) and resetView have
\* run, and after each single update within a gesture,
\* minZoom <= currentZoom <= maxZoom.
C1_ZoomWithinBounds ==
    minZoom <= st.currentZoom /\ st.currentZoom <= maxZoom

\* C1's case: a pinch move spread the fingers further than maxZoom allows
\* and the zoom stopped at maxZoom.
C1_Witness ==
    /\ hist.op = "touchmove"
    /\ "handlePinchMove" \in hist.calls
    /\ st.currentZoom = maxZoom

\* C2: every handler that begins a drag (beginPan from mousedown, a
\* single-finger touchstart or the pinch-to-pan hand-off) or a pinch
\* (startPinch) returns with panInertiaFrame and panAnimationFrame null, no
\* frame callback pending, the completion callback cleared and the pan
\* velocity (0, 0); this holds for the event just handled and for every such
\* event that can arrive while an inertia loop or an animation is running.
C2_GestureStartCancelsLoops ==
    /\ GestureStarted(hist.calls) => LoopsCancelled(st)
    /\ (st.panInertiaFrame # 0 \/ st.panAnimationFrame # 0) =>
          \A s2 \in AfterGestureEvent : GestureStarted(s2.calls) => LoopsCancelled(s2)

\* C2's case: a drag began while a centering animation with a completion
\* callback was running.
C2_Witness ==
    /\ "beginPan" \in hist.calls
    /\ hist.pre.animation
    /\ hist.pre.callback
    /\ st.isPanning

\* C3: in every reachable state a drag (isPanning) and an inertia loop
\* (panInertiaFrame non-null) are not active together, and no event that
\* arrives during an inertia loop leaves both active.
C3_DragExcludesInertia ==
    /\ ~(st.isPanning /\ st.panInertiaFrame # 0)
    /\ st.panInertiaFrame # 0 =>
          \A s2 \in AfterGestureEvent : ~(s2.isPanning /\ s2.panInertiaFrame # 0)

\* C3's case: a drag was released with speed and the inertia loop started
\* after the drag had ended.
C3_Witness ==
    /\ hist.op = "mouseup"
    /\ hist.pre.panning
    /\ ~st.isPanning
    /\ st.panInertiaFrame # 0

\* C4: in every reachable state a centering animation (panAnimationFrame
\* non-null) is not pending while a drag, a pinch or an inertia loop is
\* active.
C4_AnimationExcludesGestures ==
    st.panAnimationFrame # 0 =>
        ~st.isPanning /\ ~st.pinchActive /\ st.panInertiaFrame = 0

\* C5: in every reachable state isPanning and pinchActive are not both true.
C5_DragExcludesPinch ==
    ~(st.isPanning /\ st.pinchActive)

\* The aborted drag of pre has become a pinch in s2: the drag has ended, no
\* inertia frame is scheduled, the velocity is reset, the pinch starts from
\* the zoom of the interruption, and lifting the fingers afterwards
\* schedules no inertia frame either.
DragBecamePinch(pre, s2, tch, t) ==
    /\ ~s2.isPanning
    /\ s2.panInertiaFrame = 0 /\ s2.rafInertia = {}
    /\ s2.panVelocityX = 0 /\ s2.panVelocityY = 0
    /\ s2.pinchActive
    /\ s2.pinchStartZoom = pre.currentZoom
    /\ \A d \in EventGaps :
          handleTouchEnd(s2, <<>>, Len(tch), t + d).panInertiaFrame = 0

\* C6: when a second touch point arrives while a drag is active (a
\* touchstart or a touchmove with two or more touches, before endPan), the
\* drag ends without inertia, then and when the fingers are lifted, the
\* velocity is reset, and a pinch starts with pinchStartZoom equal to
\* currentZoom at the moment of the interruption.
C6_SecondTouchEndsDrag ==
    st.isPanning =>
        \A d \in EventGaps :
            /\ \A p \in Positions :
                  (Len(touches) >= 1 /\ Len(touches) < MaxTouches) =>
                      DragBecamePinch(st, touchstartListeners(st, p, TRUE, now + d),
                                      Landed(p), now + d)
            /\ \A i \in 1..Len(touches), p \in Positions :
                  Len(touches) >= 2 =>
                      DragBecamePinch(st, touchMoveHandler(st, Moved(i, p), now + d),
                                      Moved(i, p), now + d)

\* The pinch of pre has been handed over in s2 to a drag of the one finger
\* left in tch, and a move event at that finger's position leaves pan where
\* it is.
HandedOver(pre, s2, tch, t) ==
    /\ ~s2.pinchActive
    /\ s2.isPanning
    /\ s2.startX = ClientX(tch[1]) /\ s2.startY = ClientY(tch[1])
    /\ s2.initialPanX = pre.panX /\ s2.initialPanY = pre.panY
    /\ s2.panX = pre.panX /\ s2.panY = pre.panY
    /\ s2.currentZoom = pre.currentZoom
    /\ \A d \in EventGaps :
          LET s3 == touchMoveHandler(s2, tch, t + d)
          IN s3.panX = s2.panX /\ s3.panY = s2.panY /\ s3.isPanning

\* C7: when the touches drop from two to one during a pinch and the finger
\* left is over neither an interactive element nor the table panel, the
\* pinch ends and a drag begins at that finger's position with the current
\* pan as its origin pan; the hand-off changes neither pan nor zoom and a
\* move event at the same position leaves pan unchanged.
C7_PinchHandsOverToDrag ==
    (st.pinchActive /\ Len(touches) = 2) =>
        \A gone \in {{1}, {2}}, d \in EventGaps :
            ElementAt(Lifted(gone)[1]) = "map" =>
                HandedOver(st, handleTouchEnd(st, Lifted(gone), 1, now + d),
                           Lifted(gone), now + d)

\* C7's case: one finger of a pinch that had zoomed the map was lifted and
\* the finger left on the map now drags it.
C7_Witness ==
    /\ hist.op = "touchend"
    /\ hist.pre.pinch
    /\ "beginPan" \in hist.calls
    /\ Len(touches) = 1
    /\ st.isPanning /\ ~st.pinchActive

\* C8: a pointer-down that starts a drag, a pinch start, a wheel zoom event
\* or a zoomIn/zoomOut press that arrives while a centering animation is
\* running leaves panAnimationFrame null and no animation frame pending.
C8_InputPreemptsAnimation ==
    (/\ hist.pre.animation
     /\ \/ GestureStarted(hist.calls)
        \/ hist.op \in {"zoomIn", "zoomOut"}
        \/ hist.op = "wheel" /\ hist.arg.deltaY # 0)
    => st.panAnimationFrame = 0 /\ st.rafAnim = {}

\* C9: a completion callback is invoked at most once, it is invoked when
\* the animation's last frame has run or, with duration 0 or animate=false,
\* within the call, and when it is invoked panX and panY are the computed
\* target pan exactly and panAnimationFrame is null.
C9_CallbackOnceAtExactTarget ==
    /\ \A i, j \in 1..Len(st.invoked) : st.invoked[i].cb = st.invoked[j].cb => i = j
    /\ \A i \in 1..Len(st.invoked) :
          /\ st.invoked[i].frame = 0
          /\ st.invoked[i].panX = st.invoked[i].targetPanX
          /\ st.invoked[i].panY = st.invoked[i].targetPanY
    /\ (hist.op = "animFrame" /\ hist.pre.callback /\ st.panAnimationFrame = 0) =>
          /\ st.invoked # <<>>
          /\ st.panAnimationComplete = 0
    /\ (hist.op = "centerOn" /\ hist.arg.callback
            /\ ~(hist.arg.animate /\ hist.arg.duration > 0)) =>
          /\ st.invoked # <<>>
          /\ st.invoked[Len(st.invoked)].cb = st.issued

\* The cancel has left s2 with the pan of pre, and with no animation.
PanKept(pre, s2) ==
    /\ s2.panX = pre.panX /\ s2.panY = pre.panY
    /\ s2.panAnimationFrame = 0 /\ s2.rafAnim = {}

\* C10: cancelling a centering animation, by stopPanAnimation itself or
\* through beginPan, startPinch, zoomIn, zoomOut or a new
\* centerOnCoordinates, leaves panX, panY and currentZoom as the last
\* executed frame left them, apart from what the cancelling operation
\* itself is for (the zoom step of zoomIn/zoomOut, the zoom and the new
\* animation of centerOnCoordinates).
C10_CancelKeepsPanAndZoom ==
    st.panAnimationFrame # 0 =>
        /\ PanKept(st, stopPanAnimation(st))
        /\ stopPanAnimation(st).currentZoom = st.currentZoom
        /\ \A s2 \in AfterPointerEvent :
              GestureStarted(s2.calls) => PanKept(st, s2) /\ s2.currentZoom = st.currentZoom
        /\ \A i \in 1..Len(touches), p \in Positions :
              LET s2 == startPinch(st, Moved(i, p))
              IN Len(touches) >= 2 => PanKept(st, s2) /\ s2.currentZoom = st.currentZoom
        /\ PanKept(st, zoomIn(st)) /\ PanKept(st, zoomOut(st))
        /\ \A c \in CenterInputs, d \in EventGaps :
              (c.animate /\ c.duration > 0) =>
                  LET opt == [animate |-> c.animate, duration |-> c.duration,
                              onComplete |-> 0, minZoom |-> c.minZoom, focus |-> c.focus]
                      s2 == centerOnCoordinates(st, Px(c.x), Px(c.y), opt, c.mobile, now + d)
                  IN /\ s2.panX = st.panX /\ s2.panY = st.panY
                     /\ \A f \in s2.rafAnim :
                           f.startPanX = st.panX /\ f.startPanY = st.panY
                     /\ Cardinality(s2.rafAnim) = 1

\* C10's case: an animation had run a frame and a pointer-down on the map
\* cancelled it on its way.
C10_Witness ==
    /\ hist.op = "mousedown"
    /\ hist.pre.animation
    /\ frames >= 1
    /\ st.panAnimationFrame = 0
    /\ st.isPanning

\* C11: after resetView, in whatever state it is called, the zoom is 1, the
\* pan is (defaultPanX, defaultPanY), no drag, pinch, inertia loop or
\* animation is active, and a pointer move or a two-finger move that follows
\* without a new pointer-down changes neither pan nor zoom.
C11_ResetViewRecovers ==
    hist.op = "resetView" =>
        /\ st.currentZoom = Dec(1, 1)
        /\ st.panX = defaultPanX /\ st.panY = defaultPanY
        /\ ~st.isPanning /\ ~st.pinchActive
        /\ st.panInertiaFrame = 0 /\ st.rafInertia = {}
        /\ st.panAnimationFrame = 0 /\ st.rafAnim = {}
        /\ \A p \in Positions, d \in EventGaps :
              LET s2 == mousemoveListener(st, p, now + d)
              IN s2.panX = st.panX /\ s2.panY = st.panY /\ s2.currentZoom = st.currentZoom
        /\ \A s2 \in AfterTouchMove :
              Len(touches) >= 2 =>
                  s2.panX = st.panX /\ s2.panY = st.panY /\ s2.currentZoom = st.currentZoom

\* The values a malformed event or call can carry.
NonFinite == {NaN, PosInf, NegInf}

\* s2 has the zoom and the pan of the current state.
ViewportUnmoved(s2) ==
    s2.currentZoom = st.currentZoom /\ s2.panX = st.panX /\ s2.panY = st.panY

\* C12: an update with a non-finite input (a pointer coordinate in
\* updatePan, a touch coordinate and so the distance in a pinch move, deltaY
\* in a wheel event, x or y in centerOnCoordinates) leaves currentZoom, panX
\* and panY unchanged, and they are finite in every reachable state.
C12_NonFiniteInputIgnored ==
    /\ IsFinite(st.currentZoom) /\ IsFinite(st.panX) /\ IsFinite(st.panY)
    /\ \A c \in NonFinite, d \in EventGaps :
          /\ st.isPanning =>
                \A p \in Positions :
                    /\ ViewportUnmoved(updatePan(st, c, ClientY(p), now + d))
                    /\ ViewportUnmoved(updatePan(st, ClientX(p), c, now + d))
          /\ (st.pinchActive /\ Len(touches) >= 2) =>
                \A i \in 1..Len(touches) :
                    /\ ViewportUnmoved(handlePinchMove(st, Moved(i, <<c, touches[i][2]>>)))
                    /\ ViewportUnmoved(handlePinchMove(st, Moved(i, <<touches[i][1], c>>)))
          /\ \A ev \in WheelInputs :
                ViewportUnmoved(wheelListener(st, [ev EXCEPT !.deltaY = c]))
          /\ \A ci \in CenterInputs :
                LET opt == [animate |-> ci.animate, duration |-> ci.duration, onComplete |-> 0,
                            minZoom |-> ci.minZoom, focus |-> ci.focus]
                IN /\ ViewportUnmoved(centerOnCoordinates(st, c, Px(ci.y), opt, ci.mobile, now + d))
                   /\ ViewportUnmoved(centerOnCoordinates(st, Px(ci.x), c, opt, ci.mobile, now + d))

\* Stopping all motion: stopPanInertia(true) followed by stopPanAnimation().
stopAllMotion(s) == stopPanAnimation(stopPanInertia(s, TRUE))

\* Nothing runs in s: no loop, no pending callback, no velocity, no session.
Idle(s) ==
    /\ s.panInertiaFrame = 0 /\ s.rafInertia = {}
    /\ s.panAnimationFrame = 0 /\ s.rafAnim = {}
    /\ s.panAnimationComplete = 0
    /\ s.panVelocityX = 0 /\ s.panVelocityY = 0
    /\ ~s.isPanning /\ ~s.pinchActive

\* C13: in every reachable state, stopping all motion twice leaves the state
\* that stopping it once leaves, and after it the engine is idle: no inertia
\* frame, no animation frame, no pending callback, zero velocity and no
\* active session.
C13_StopAllMotionIdempotentIdle ==
    /\ stopAllMotion(stopAllMotion(st)) = stopAllMotion(st)
    /\ Idle(stopAllMotion(st))


\* C14: at the end of every operation that changes currentZoom, panX or
\* panY, the svg's viewBox attribute is the viewBox that getViewBox computes
\* from the new zoom and pan.
C14_ViewBoxFollowsState ==
    [][(st'.currentZoom # st.currentZoom \/ st'.panX # st.panX \/ st'.panY # st.panY)
         => st'.viewBox = getViewBox(st')]_vars


\* Sample zooms in [minZoom, maxZoom] and sample pans for getViewBox.
ViewBoxZooms == {Dec(1, 1), Dec(12, 10), Dec(5, 3), Dec(21, 10), Dec(3, 1), Dec(8, 1)}
ViewBoxPans == {0, Px(50), Px(-30), Px(-575), Px(2000), 333, 1001, -77}

\* getViewBox at zoom z and pan (x, y).
ViewBoxAt(z, x, y) == getViewBox([currentZoom |-> z, panX |-> x, panY |-> y])
\* The distance of the centre of viewBox vb from (baseWidth/2 - x,
\* baseHeight/2 - y), on each axis.
CentreErrorX(vb, x) == Abs(Add(vb.x, Half(vb.width)) - Sub(Half(baseWidth), x))
CentreErrorY(vb, y) == Abs(Add(vb.y, Half(vb.height)) - Sub(Half(baseHeight), y))
ViewBoxSize(vb, z) ==
    /\ vb.width = Div(baseWidth, z) /\ vb.width > 0
    /\ vb.height = Div(baseHeight, z) /\ vb.height > 0

\* The zooms and pans at which a state examines getViewBox: its own, and in
\* the initial state the samples as well (they do not depend on the state).
ViewBoxInputs ==
    {<<st.currentZoom, st.panX, st.panY>>}
      \cup (IF hist.op = "init"
            THEN {<<z, x, y>> : z \in ViewBoxZooms, x \in ViewBoxPans, y \in ViewBoxPans}
            ELSE {})

\* C15 (as stated): for every zoom in [minZoom, maxZoom] and every pan,
\* getViewBox returns width = baseWidth/zoom > 0, height = baseHeight/zoom > 0
\* and a centre (x + width/2, y + height/2) equal to
\* (baseWidth/2 - panX, baseHeight/2 - panY).
C15_ViewBoxCentreExact ==
    \A i \in ViewBoxInputs :
        LET vb == ViewBoxAt(i[1], i[2], i[3])
        IN /\ ViewBoxSize(vb, i[1])
           /\ CentreErrorX(vb, i[2]) = 0
           /\ CentreErrorY(vb, i[3]) = 0

\* C15 (amended): for every zoom in [minZoom, maxZoom] and every pan,
\* getViewBox returns width = baseWidth/zoom > 0, height = baseHeight/zoom > 0
\* and a centre that is (baseWidth/2 - panX, baseHeight/2 - panY) up to the
\* rounding of the arithmetic: within two units in the last place of the
\* larger of |pan| and the base size.
C15_ViewBoxCentre ==
    \A i \in ViewBoxInputs :
        LET vb == ViewBoxAt(i[1], i[2], i[3])
        IN /\ ViewBoxSize(vb, i[1])
           /\ CentreErrorX(vb, i[2]) <= 2 * Ulp(Max2(Abs(i[2]), baseWidth), 1, MantLimit)
           /\ CentreErrorY(vb, i[3]) <= 2 * Ulp(Max2(Abs(i[3]), baseHeight), 1, MantLimit)

\* C15 witness: a zoomed and panned map whose rendered viewBox is the one
\* getViewBox computes, with a centre that rounding has moved.
C15_Witness ==
    /\ st.currentZoom > minZoom /\ st.currentZoom <= maxZoom
    /\ st.panX # defaultPanX
    /\ st.viewBox = getViewBox(st)
    /\ CentreErrorX(st.viewBox, st.panX) > 0


\* The pan multiplier of C16 at a zoom: 1 + 2 (zoom - minZoom) / (maxZoom -
\* minZoom), times 1.4 for touch input.
DragMultiplier(zoom, inputType) ==
    LET m == Add(Dec(1, 1), Mul(Div(Sub(zoom, minZoom), Sub(maxZoom, minZoom)), Dec(2, 1)))
    IN IF inputType = "touch" THEN Mul(m, Dec(14, 10)) ELSE m
\* One coordinate of the pan of a drag from pointer position from to
\* position to: origin + ((to - from) / zoom) * m.
DragPan(origin, from, to, zoom, inputType) ==
    Add(origin, Mul(Div(Sub(to, from), zoom), DragMultiplier(zoom, inputType)))
\* The pan of state s is the drag pan for a drag that began at position p0
\* with the pan of state s0 and whose pointer is now at position p.
PanIsDragPan(s, s0, p0, p, inputType) ==
    /\ s.panX = DragPan(s0.panX, ClientX(p0), ClientX(p), s0.currentZoom, inputType)
    /\ s.panY = DragPan(s0.panY, ClientY(p0), ClientY(p), s0.currentZoom, inputType)

\* C16: a drag begun at p0 in a state reached by at most one event, with
\* mouse or touch input, has after updatePan to p1 the pan origin + ((p1 - p0) / zoom) * m,
\* and after a further updatePan to p2 the pan origin + ((p2 - p0) / zoom) * m,
\* which is the pan of a single updatePan to p2; beginPan(100,100),
\* updatePan(150,130) with the mouse at zoom 1 gives pan + (50, 30).  In
\* every reachable state that a drag update of a listener has left, the pan
\* is that of the drag's origin and the pointer's position.
C16_DragMathRelativeToOrigin ==
    /\ steps <= 1 =>
       \A inputType \in {"mouse", "touch"}, p0 \in {<<100, 100>>, <<160, 180>>}, p2 \in Positions :
         LET p1 == <<150, 130>>
             s0 == beginPan(st, ClientX(p0), ClientY(p0), inputType, now + 16)
             s1 == updatePan(s0, ClientX(p1), ClientY(p1), now + 32)
             s2 == updatePan(s1, ClientX(p2), ClientY(p2), now + 48)
             direct == updatePan(s0, ClientX(p2), ClientY(p2), now + 48)
         IN /\ PanIsDragPan(s1, st, p0, p1, inputType)
            /\ PanIsDragPan(s2, st, p0, p2, inputType)
            /\ s2.panX = direct.panX /\ s2.panY = direct.panY
            /\ (inputType = "mouse" /\ p0 = <<100, 100>> /\ st.currentZoom = Dec(1, 1))
                 => (s1.panX = Add(st.panX, Px(50)) /\ s1.panY = Add(st.panY, Px(30)))
    /\ "updatePan" \in hist.calls =>
         LET p == IF hist.op = "mousemove" THEN hist.arg ELSE hist.arg[2]
         IN /\ st.panX = DragPan(st.initialPanX, st.startX, ClientX(p), st.currentZoom, st.panInputType)
            /\ st.panY = DragPan(st.initialPanY, st.startY, ClientY(p), st.currentZoom, st.panInputType)

\* C16 witness: a drag on a zoomed map has moved the pan away from the pan
\* it began with.
C16_Witness ==
    /\ "updatePan" \in hist.calls
    /\ st.isPanning
    /\ st.currentZoom > minZoom
    /\ st.panX # st.initialPanX /\ st.panY # st.initialPanY


\* The map coordinate that viewBox vb shows at the fraction (fx, fy) of the
\* svg's rectangle.
MapPointAt(vb, fx, fy) == [x |-> Add(vb.x, Mul(vb.width, fx)), y |-> Add(vb.y, Mul(vb.height, fy))]
\* The fraction of the svg's rectangle at which screen point m lies.
ScreenFraction(m) ==
    [x |-> clamp(Div(Sub(m.x, svgRect.left), svgRect.width), 0, Dec(1, 1)),
     y |-> clamp(Div(Sub(m.y, svgRect.top), svgRect.height), 0, Dec(1, 1))]
\* Floating tolerance for map coordinates: four units in the last place of
\* the base size.
AnchorTolerance == 4 * Ulp(baseHeight, 1, MantLimit)
Near(a, b) == Abs(a - b) <= AnchorTolerance

\* The pinch move that takes finger i to p keeps the map coordinate under
\* the midpoint of the two fingers.
AnchorKept(i, p) ==
    LET tch == Moved(i, p)
        s2 == touchMoveHandler(st, tch, now + 16)
        f == ScreenFraction(getTouchMidpoint(tch[1], tch[2]))
        before == MapPointAt(getViewBox(st), f.x, f.y)
        after == MapPointAt(s2.viewBox, f.x, f.y)
    IN "handlePinchMove" \in s2.calls => (Near(before.x, after.x) /\ Near(before.y, after.y))

\* C17: for every pinch move, whatever the pan before it, the map
\* coordinate under the gesture midpoint before the update is, within
\* floating tolerance, the map coordinate under that screen midpoint after
\* the update.
C17_PinchAnchorFixed ==
    (st.pinchActive /\ Len(touches) = 2) =>
        \A i \in 1..2, p \in Positions : AnchorKept(i, p)


\* viewBox vb lies inside the canvas [0, baseWidth] x [0, baseHeight].
InCanvas(vb) ==
    /\ 0 <= vb.x /\ Add(vb.x, vb.width) <= baseWidth
    /\ 0 <= vb.y /\ Add(vb.y, vb.height) <= baseHeight

\* Targets (map pixels) and focus fractions of the centerings examined.
CenterTargets == {<<0, 0>>, <<575, 680>>, <<1150, 1360>>, <<-30, 2000>>}
FocusFractions ==
    {centreFocus, [x |-> 0, y |-> Dec(1, 1)], [x |-> Dec(1, 4), y |-> Dec(3, 4)],
     [x |-> Dec(2, 1), y |-> NaN]}
\* Options of a centering with duration 0 and focus f.
InstantOptions(f) ==
    [animate |-> TRUE, duration |-> 0, onComplete |-> 0, minZoom |-> 0, focus |-> f]

\* The viewBox after centerOnCoordinates(x, y, {duration: 0}) is inside the
\* canvas, for every target and focus examined.
InstantCenteringInCanvas ==
    \A c \in CenterTargets, f \in FocusFractions :
        InCanvas(centerOnCoordinates(st, Px(c[1]), Px(c[2]), InstantOptions(f), FALSE, now + 16).viewBox)

\* The frame that has just run completed an animated centering.
CenteringCompleted == hist.op = "animFrame" /\ hist.pre.animation /\ st.panAnimationFrame = 0

\* C18: after centerOnCoordinates(x, y, {duration: 0}), for any finite
\* target, any focus fraction and any zoom within bounds, and after an
\* animated centering that has run to completion, the viewBox lies inside
\* the canvas.
C18_CenteringStaysInCanvas ==
    /\ InstantCenteringInCanvas
    /\ CenteringCompleted => InCanvas(st.viewBox)


\* Targets and focus fractions of the centerings of C19.  The result of a
\* centering depends on the state through its zoom only; the centerings are
\* examined in the states reached by at most two events.
FocusTargets == {<<575, 680>>, <<325, 500>>, <<244, 300>>}
FocusPoints == {centreFocus, [x |-> Dec(1, 4), y |-> Dec(3, 4)]}
\* The state after centerOnCoordinates(c, {duration: 0, focus: f}).
CenteredAt(c, f) ==
    centerOnCoordinates(st, Px(c[1]), Px(c[2]), InstantOptions(f), FALSE, now + 16)
\* The clamp of calculatePanForCoordinates does not bind on an axis: the
\* origin target - size * fraction lies in [0, base - size].
ClampFree(target, base, zoom, fraction) ==
    LET size == Div(base, zoom)
        desired == Sub(target, Mul(size, fraction))
    IN 0 <= desired /\ desired <= Sub(base, size)
\* The distance, on each axis, between target c and the map coordinate that
\* viewBox vb shows at focus f.
FocusErrorX(vb, c, f) == Abs(Add(vb.x, Mul(vb.width, f.x)) - Px(c[1]))
FocusErrorY(vb, c, f) == Abs(Add(vb.y, Mul(vb.height, f.y)) - Px(c[2]))
\* At zoom 1, centerOnCoordinates(575, 680, {duration: 0}) leaves pan (0, 0).
CentreOfBaseGivesZeroPan ==
    st.currentZoom = Dec(1, 1) =>
        (CenteredAt(<<575, 680>>, centreFocus).panX = 0 /\ CenteredAt(<<575, 680>>, centreFocus).panY = 0)

\* C19 (as stated): centerOnCoordinates(x, y, {duration: 0}) places the
\* target exactly at the focus point on every axis on which the clamp does
\* not bind: viewBox.x + focusX * width = x, viewBox.y + focusY * height = y;
\* at zoom 1, centerOn(575, 680) leaves pan = (0, 0).
C19_TargetAtFocusExact ==
    /\ \A c \in (IF steps <= 2 THEN FocusTargets ELSE {}), f \in FocusPoints :
         LET vb == CenteredAt(c, f).viewBox
         IN /\ ClampFree(Px(c[1]), baseWidth, st.currentZoom, f.x) => FocusErrorX(vb, c, f) = 0
            /\ ClampFree(Px(c[2]), baseHeight, st.currentZoom, f.y) => FocusErrorY(vb, c, f) = 0
    /\ CentreOfBaseGivesZeroPan

\* C19 (amended): centerOnCoordinates(x, y, {duration: 0}) places the
\* target at the focus point, up to the rounding of the arithmetic (within
\* two units in the last place of the base size), on every axis on which
\* the clamp does not bind; at zoom 1, centerOn(575, 680) leaves pan = (0, 0)
\* exactly.
C19_TargetAtFocus ==
    /\ \A c \in (IF steps <= 2 THEN FocusTargets ELSE {}), f \in FocusPoints :
         LET vb == CenteredAt(c, f).viewBox
         IN /\ ClampFree(Px(c[1]), baseWidth, st.currentZoom, f.x)
                 => FocusErrorX(vb, c, f) <= 2 * Ulp(baseWidth, 1, MantLimit)
            /\ ClampFree(Px(c[2]), baseHeight, st.currentZoom, f.y)
                 => FocusErrorY(vb, c, f) <= 2 * Ulp(baseHeight, 1, MantLimit)
    /\ CentreOfBaseGivesZeroPan

\* C19 witness: on a zoomed map, an instant centering with an off-centre
\* focus whose clamp binds on neither axis moves the pan.
C19_Witness ==
    LET c == <<325, 500>>
        f == [x |-> Dec(1, 4), y |-> Dec(3, 4)]
    IN /\ st.currentZoom > minZoom
       /\ ClampFree(Px(c[1]), baseWidth, st.currentZoom, f.x)
       /\ ClampFree(Px(c[2]), baseHeight, st.currentZoom, f.y)
       /\ CenteredAt(c, f).panX # st.panX
       /\ CenteredAt(c, f).panY # st.panY
       /\ CenteredAt(c, f).viewBox # st.viewBox


\* State s2 has the pan of the current state, and shows the viewBox that
\* getViewBox gives for that pan at the zoom of s2.
PanUntouched(s2) ==
    /\ s2.panX = st.panX /\ s2.panY = st.panY
    /\ s2.currentZoom # st.currentZoom =>
         s2.viewBox = getViewBox([st EXCEPT !.currentZoom = s2.currentZoom])

\* C20: in every reachable state that can handle an event, a wheel event,
\* zoomIn and zoomOut leave panX and panY as they are, so that the viewBox
\* they render keeps its centre at baseWidth/2 - panX, baseHeight/2 - panY.
C20_ZoomKeepsPan ==
    steps < MaxSteps =>
        /\ \A ev \in WheelInputs : PanUntouched(wheelListener(st, ev))
        /\ PanUntouched(zoomIn(st))
        /\ PanUntouched(zoomOut(st))

\* C20 witness: a wheel event or a zoom button has acted during a drag that
\* had moved the map, on a map that ends zoomed, with the pan of the drag.
C20_Witness ==
    /\ hist.op \in {"wheel", "zoomIn", "zoomOut"}
    /\ hist.pre.panning
    /\ st.currentZoom > minZoom
    /\ st.panX # st.initialPanX /\ st.panX # defaultPanX
    /\ st.viewBox = getViewBox(st)


\* State s2 has the zoom, pan, velocity, inertia loop and centering
\* animation of the current state, and no session that the current state
\* does not have.
EngineUntouched(s2) ==
    /\ s2.currentZoom = st.currentZoom /\ s2.panX = st.panX /\ s2.panY = st.panY
    /\ s2.panVelocityX = st.panVelocityX /\ s2.panVelocityY = st.panVelocityY
    /\ s2.panInertiaFrame = st.panInertiaFrame /\ s2.rafInertia = st.rafInertia
    /\ s2.panAnimationFrame = st.panAnimationFrame /\ s2.rafAnim = st.rafAnim
    /\ s2.panAnimationComplete = st.panAnimationComplete
    /\ s2.isPanning => st.isPanning
    /\ s2.pinchActive => st.pinchActive

\* The positions whose element matches the interactive predicate.
InteractivePositions == {p \in Positions : isInteractiveElement(ElementAt(p))}

\* A mousedown on an interactive element leaves the engine untouched.
MouseDownOnInteractive ==
    \A p \in InteractivePositions : EngineUntouched(mousedownListener(st, p, now + 16))

\* A single-finger touchstart on an interactive element leaves the engine
\* untouched.
TouchStartOnInteractive ==
    touches = <<>> =>
        \A p \in InteractivePositions, onSvg \in BOOLEAN :
            (onSvg \/ ElementAt(p) = "tablePanel")
                => EngineUntouched(touchstartListeners(st, p, onSvg, now + 16))

\* C21: in every reachable state, a mousedown or a single-finger touchstart
\* on a marker or on the table panel starts no drag and no pinch and leaves
\* zoom, pan, velocity, a running inertia loop and a running centering
\* animation unchanged.
C21_InteractivePointerDownIgnored ==
    /\ MouseDownOnInteractive
    /\ TouchStartOnInteractive


\* The times at which a release is examined: with the next event, and after
\* a long pause.
ReleaseTimes == {now + d : d \in EventGaps \cup LongWait}

\* The velocity that a release at time t hands to inertia: the smoothed
\* velocity of the drag, multiplied by 1.1 and clamped to +-0.9 per
\* component when the last movement sample is at most 35 ms old.
Boosted(v) == clamp(Mul(v, Dec(11, 10)), -Vel(9, 10), Vel(9, 10))
RecentSample(s, t) == s.lastPointerTime # 0 /\ t - s.lastPointerTime <= 35
HandOffVelocity(s, t) ==
    IF RecentSample(s, t)
    THEN [x |-> Boosted(s.panVelocityX), y |-> Boosted(s.panVelocityY)]
    ELSE [x |-> s.panVelocityX, y |-> s.panVelocityY]

\* State s2 runs an inertia loop with velocity v: its frame is pending.
InertiaRunsWith(s2, v) ==
    /\ s2.panInertiaFrame # 0
    /\ \E c \in s2.rafInertia : c.id = s2.panInertiaFrame
    /\ s2.panVelocityX = v.x /\ s2.panVelocityY = v.y
\* State s2 has no inertia: no frame and no velocity.
NoInertia(s2) ==
    /\ s2.panInertiaFrame = 0 /\ s2.rafInertia = {}
    /\ s2.panVelocityX = 0 /\ s2.panVelocityY = 0

\* Slow drags: velocities below, at and above minVelocity = 0.0012 px/ms.
SlowVelocities ==
    {[x |-> Vel(1, 1000), y |-> 0], [x |-> 0, y |-> -Vel(1, 1000)],
     [x |-> Vel(12, 10000), y |-> 0], [x |-> Vel(1, 1000), y |-> Vel(1, 1000)]}
\* The drag of the current state, and the same drag with a slow velocity.
DragsToRelease ==
    {st} \cup {[st EXCEPT !.panVelocityX = v.x, !.panVelocityY = v.y] : v \in SlowVelocities}

\* C22: the release of a drag (endPan without skipInertia) starts an
\* inertia loop with the drag's velocity if and only if hypot(vx, vy) is at
\* least minVelocity (0.0012); otherwise no frame is scheduled and the
\* velocity is reset to (0, 0).  The release leaves the pan at the value of
\* the last drag update.
C22_InertiaIffFastEnough ==
    (st.isPanning /\ steps <= 2) =>
        \A s \in DragsToRelease, t \in ReleaseTimes :
            LET s2 == mouseupListener(s, t)
                v == HandOffVelocity(s, t)
            IN /\ ~s2.isPanning
               /\ s2.panX = st.panX /\ s2.panY = st.panY
               /\ IF Hypot(v.x, v.y) >= Vel(12, 10000)
                  THEN InertiaRunsWith(s2, v)
                  ELSE NoInertia(s2)

\* C22 witness: a mouse drag that moved the map has been released and its
\* inertia loop is pending.
C22_Witness ==
    /\ hist.op = "mouseup" /\ hist.pre.panning
    /\ ~st.isPanning
    /\ st.panInertiaFrame # 0 /\ st.rafInertia # {}
    /\ Hypot(st.panVelocityX, st.panVelocityY) >= minVelocity


\* ------------------------------------------------- an uninterrupted fling
\* The inertia loop on its own: a release has handed a velocity to
\* startPanInertia, and from then on the browser only delivers animation
\* frames, each a positive time after the one before.
FlingVelocities ==
    {[x |-> Vel(1, 2), y |-> 0], [x |-> Vel(9, 10), y |-> -Vel(9, 10)],
     [x |-> -Vel(3, 100), y |-> Vel(1, 10)], [x |-> Vel(2, 1000), y |-> 0]}
\* Times between two frames, in ms: irregular while the fling is younger
\* than JitterUntil ms, then the display's steady 16 ms.
FrameGapsAt(t) == IF t < JitterUntil THEN {16, 48} ELSE {16}

FlingInit ==
    /\ \E v \in FlingVelocities :
         st = [startPanInertia([InitState EXCEPT !.panVelocityX = v.x, !.panVelocityY = v.y], 16)
                 EXCEPT !.calls = {}]
    /\ touches = <<>>
    /\ now = 16
    /\ steps = 0
    /\ frames = 0
    /\ hist = [op |-> "init", arg |-> <<>>, calls |-> {}, pre |-> Running(InitState)]

\* The browser runs the pending inertia frame, d ms after the frame before.
FlingFrame ==
    \E c \in st.rafInertia, d \in FrameGapsAt(now) :
        /\ Record("inertiaFrame", c, panInertiaStep(st, c, now + d), touches, now + d)
        /\ UNCHANGED <<steps, frames>>

FlingNext == FlingFrame

\* requestAnimationFrame runs every callback it has accepted: weak fairness
\* of FlingFrame.  FlingFrame is enabled exactly when a frame is pending, so
\* WF_vars(FlingFrame) is written with that state predicate in the place of
\* ENABLED <<FlingFrame>>_vars.
FlingFair == []<>(st.rafInertia = {}) \/ []<><<FlingFrame>>_vars
FlingSpec == FlingInit /\ [][FlingNext]_vars /\ FlingFair

\* C23: an inertia loop that is not interrupted and whose frames keep being
\* delivered with positive elapsed time ends: from some frame on no frame
\* is scheduled, panInertiaFrame is null, the velocity is (0, 0) and the
\* engine is idle.
C23_InertiaTerminates == <>[]Idle(st)

\* C23 witness: a fling that ran for at least a second has ended, with the
\* map moved and the engine idle.
C23_Witness ==
    /\ hist.op = "inertiaFrame" /\ hist.pre.inertia
    /\ now >= 1016
    /\ Idle(st)
    /\ st.panX # defaultPanX

\* The fling that started with velocity (0.5, 0): the only one of
\* FlingVelocities that moves the map 8 px or more along x alone.
HalfFling == st.panY = defaultPanY /\ st.panX >= defaultPanX + Px(8)
\* 0.5 * d^k in units of 2^-20 px/ms, for a decay d per 16 ms.
RECURSIVE DecayedHalf(_, _)
DecayedHalf(d, k) ==
    IF k = 0 THEN Pow2(19)
    ELSE LET before == DecayedHalf(d, k - 1) IN RoundDiv(before * d, 1024)
\* The same value on the velocity grid.
ExpectedVelocity(d, k) == RoundDiv(DecayedHalf(d, k), 64)
\* Rounding allowed after k periods of 16 ms: two roundings of the
\* arithmetic in each period, and the spacing of the velocity grid.
DecayTolerance(d, k) == 8 + (k * ExpectedVelocity(d, k)) \div (MantLimit \div 2)
\* The velocity law with decay d per 16 ms: while the fling runs its velocity
\* is 0.5 * d^(T/16) however the T ms were cut into frames, and the fling
\* has ended once that value is below minVelocity.
VelocityLaw(d) ==
    (hist.op = "inertiaFrame" /\ HalfFling) =>
        LET k == (now - 16) \div 16
            expected == ExpectedVelocity(d, k)
            tolerance == DecayTolerance(d, k)
        IN /\ st.panVelocityY = 0
           /\ st.panInertiaFrame # 0 =>
                Abs(st.panVelocityX - expected) <= tolerance
           /\ expected + tolerance < minVelocity => Idle(st)

\* C24: inertia decay is normalised to elapsed time: a fling started with
\* velocity (0.5, 0) has, T ms later, the velocity 0.5 * 0.92^(T/16) however
\* T was divided into frames, and stops once that value is below
\* minVelocity.
C24_DecayNormalised == VelocityLaw(Dec(92, 100))

\* Velocity estimates a long fast drag ends with: the estimate converges to
\* the cap of the samples, in either direction on either axis.
CapVelocities ==
    {[x |-> velocityMax, y |-> -velocityMax], [x |-> -velocityMax, y |-> velocityMax],
     [x |-> velocityMax - 1, y |-> 0], [x |-> 0, y |-> -velocityMax]}
\* The drag of the current state, and the same drag after a long fast run.
FastDrags ==
    {st} \cup {[st EXCEPT !.panVelocityX = v.x, !.panVelocityY = v.y] : v \in CapVelocities}
\* Each component of the velocity of s is within +-cap.
VelocityWithin(s, cap) == Abs(s.panVelocityX) <= cap /\ Abs(s.panVelocityY) <= cap
\* The inertia frames of s, d ms after t.
InertiaFramesOf(s, t) ==
    {panInertiaStep(s, c, t + d) : c \in s.rafInertia, d \in {0, 16, 48}}

\* C25: the velocity estimate stays bounded.  After every drag update each
\* component is within +-0.75, and in every state, after the flick boost
\* and after an inertia frame with a non-negative frame time included, each
\* component is within +-0.9.
C25_VelocityBounded ==
    /\ VelocityWithin(st, flickMax)
    /\ "updatePan" \in hist.calls => VelocityWithin(st, velocityMax)
    /\ (st.isPanning /\ steps <= 2) =>
         \A s \in FastDrags, t \in ReleaseTimes :
            /\ \A s2 \in {mousemoveListener(s, p, t) : p \in Positions} :
                  VelocityWithin(s2, velocityMax)
            /\ \A s2 \in {mouseupListener(s, t)} :
                  /\ VelocityWithin(s2, flickMax)
                  /\ \A s3 \in InertiaFramesOf(s2, t) : VelocityWithin(s3, flickMax)

\* C25 witness: a drag update has produced a non-zero velocity estimate.
C25_Witness ==
    /\ hist.op = "mousemove" /\ "updatePan" \in hist.calls
    /\ st.isPanning /\ steps < MaxSteps
    /\ st.panVelocityX # 0 /\ st.panVelocityY # 0

\* Release times around the flick window of drag s: 16, 35, 36 and 304 ms
\* after its last sample, and not before the present.
FlickTimes(s) == {t \in {s.lastPointerTime + d : d \in {16, 35, 36, 304}} : t >= now}
\* Drags to release: the current one, the same after a long fast run, and
\* one so slow that only the boost lifts it to minVelocity.
FlickDrags ==
    FastDrags \cup {[st EXCEPT !.panVelocityX = Vel(11, 10000), !.panVelocityY = 0]}
\* The velocity an inertia loop started from velocity v has: v itself, or
\* (0, 0) when v is below minVelocity.
AfterHandOff(v) ==
    IF Hypot(v.x, v.y) >= minVelocity THEN v ELSE [x |-> 0, y |-> 0]
\* The velocity of drag s, unboosted and boosted by 1.1 within +-0.9.
Unboosted(s) == [x |-> s.panVelocityX, y |-> s.panVelocityY]
FlickBoosted(s) ==
    [x |-> Max2(-Vel(9, 10), Min2(Vel(9, 10), Mul(s.panVelocityX, Dec(11, 10)))),
     y |-> Max2(-Vel(9, 10), Min2(Vel(9, 10), Mul(s.panVelocityY, Dec(11, 10))))]

\* C26: on release of a drag the velocity handed to inertia is the drag's
\* velocity times 1.1, clamped per component to +-0.9, if and only if the
\* last sample was recorded at most 35 ms before the release; after an
\* older sample it is exactly the smoothed drag velocity.
C26_FlickBoostIffRecent ==
    (st.isPanning /\ steps <= 2) =>
        \A s \in FlickDrags : \A t \in FlickTimes(s) :
            LET s2 == mouseupListener(s, t)
                handed == IF t - s.lastPointerTime <= 35 THEN FlickBoosted(s) ELSE Unboosted(s)
            IN Unboosted(s2) = AfterHandOff(handed)

\* C26 witness: a moving drag was released within the flick window and its
\* inertia loop is pending with the boosted velocity.
C26_Witness ==
    /\ hist.op = "mouseup" /\ hist.pre.panning
    /\ now - st.lastPointerTime <= 35
    /\ st.panInertiaFrame # 0
    /\ st.panVelocityX # 0

\* A tap: a finger lands at p on the svg at time t and leaves 16 ms later.
TapAt(s, p, t) == handleTouchEnd(touchstartListeners(s, p, TRUE, t), <<>>, 1, t + 16)
\* A swipe: the finger lands at p, moves to q and leaves.
SwipeAt(s, p, q, t) ==
    handleTouchEnd(touchMoveHandler(touchstartListeners(s, p, TRUE, t), <<q>>, t + 16),
                   <<>>, 1, t + 32)
\* Pauses in ms between the end of one tap and the start of the next: the
\* two touchends are 32, 350 and 351 ms apart.
TapPauses == {16, 334, 335}
\* The second of two taps, at p1 and then at p2, was suppressed.
SecondTapSuppressed(p1, p2, pause) ==
    TapAt(TapAt(st, p1, now + 16), p2, now + 32 + pause).defaultPrevented
\* A swipe from p2 to q after a tap at p1 was suppressed at its touchend.
SwipeSuppressed(p1, p2, q, pause) ==
    SwipeAt(TapAt(st, p1, now + 16), p2, q, now + 32 + pause).defaultPrevented

\* C27: a single-finger touchend is suppressed when it follows a previous
\* tap within 350 ms, without a move in between and on the same target; a
\* tap on a different target within 350 ms is not suppressed, nor is the end
\* of a finger that moved.
C27_TapSuppressedOnSameTarget ==
    (touches = <<>> /\ steps <= 1) =>
        \A p1 \in Positions, p2 \in Positions, pause \in TapPauses :
            /\ SecondTapSuppressed(p1, p2, pause)
                 <=> (pause + 16 <= 350 /\ ElementAt(p1) = ElementAt(p2))
            /\ \A q \in Positions \ {p2} : ~SwipeSuppressed(p1, p2, q, pause)

\* ------------------------------------------------- the selection subsystem
\* Taps, clicks and keys on the map, its poster areas, a marker and the info
\* panel, with the info panel's auto-hide timer.
InfoPositions == {<<100, 100>>, <<160, 180>>, PanelPosition} \cup AreaPositions

\* The program after the pointerdown and touchstart of a finger landing at
\* p: the info panel's own listener, or the document's and the svg's.
infoTouchstartListeners(s, p, t) ==
    IF ElementAt(p) = "infoPanel"
    THEN handleGlobalTouchStart(closeInfoOnPanelInteraction(s), Landed(p), p)
    ELSE touchstartListeners(s, p, TRUE, t)

\* The program after the touchend of the finger that landed at p: the poster
\* area's or the marker's listener, which prevents the default action, then
\* the document's.
touchendListeners(s, p, tch, t) ==
    IF ElementAt(p) = "posterArea"
    THEN [handleTouchEnd(selectArea(s, AreaIdAt(p), "touch", t), tch, 1, t)
            EXCEPT !.defaultPrevented = TRUE]
    ELSE IF ElementAt(p) = "marker"
    THEN [handleTouchEnd(showPosterInfo(s, t), tch, 1, t)
            EXCEPT !.defaultPrevented = TRUE]
    ELSE handleTouchEnd(s, tch, 1, t)

InfoTouchStart ==
    \E p \in InfoPositions, d \in EventGaps :
        /\ Len(touches) < MaxTouches
        /\ Handled("touchstart", <<p, TRUE>>,
                   infoTouchstartListeners(st, p, now + d), Landed(p), now + d)

InfoTouchEnd ==
    \E i \in 1..Len(touches), d \in EventGaps :
        Handled("touchend", {i},
                touchendListeners(st, touches[i], Lifted({i}), now + d),
                Lifted({i}), now + d)

InfoClick ==
    \E p \in InfoPositions, d \in EventGaps :
        Handled("click", p, clickListeners(st, p, now + d), touches, now + d)

InfoKey ==
    \E p \in AreaPositions, d \in EventGaps :
        Handled("keydown", p, keydownListener(st, AreaIdAt(p), now + d), touches, now + d)

\* The timer h is the next of the pending timers to come due.
NextDue(h) == \A g \in st.timeouts \cup st.posterTimeouts : h.due <= g.due

\* The auto-hide timer h comes due.
InfoTimeout ==
    \E h \in st.timeouts :
        LET t == IF h.due > now THEN h.due ELSE now + 16
        IN /\ NextDue(h)
           /\ Handled("timeout", h.id, infoAutoHideCallback(st, h), touches, t)

\* The marker timer h comes due.
InfoPosterTimeout ==
    \E h \in st.posterTimeouts :
        LET t == IF h.due > now THEN h.due ELSE now + 16
        IN /\ NextDue(h)
           /\ Handled("posterTimeout", h.id, posterInfoTimerCallback(st, h), touches, t)

InfoNext ==
    InfoTouchStart \/ InfoTouchEnd \/ InfoClick \/ InfoKey \/ InfoTimeout \/ InfoPosterTimeout

InfoSpec == Init /\ [][InfoNext]_vars

\* Nothing of a selection is left in s: panel hidden, no area selected, no
\* timer of hideInfo pending.
InfoCleared(s) ==
    /\ ~s.infoActive
    /\ s.selectedArea = 0
    /\ s.infoAutoHideTimer = 0 /\ s.posterInfoTimer = 0
    /\ s.timeouts = {}
\* s2 has the selection of the current state: the panel is not closed, the
\* selected area and its timer are the same.
InfoKept(s2) ==
    /\ st.infoActive => s2.infoActive
    /\ s2.selectedArea = st.selectedArea
    /\ s2.infoAutoHideTimer = st.infoAutoHideTimer
    /\ s2.timeouts = st.timeouts
\* Points of the empty map and of markers.
EmptyMapPositions == {p \in InfoPositions : ElementAt(p) = "map"}
MarkerPositions == {p \in InfoPositions : ElementAt(p) = "marker"}

\* C28: a tap or a click on the empty map clears the selection: afterwards
\* the info panel is not active, selectedArea is null and no auto-hide timer
\* is pending; a tap or a click on a marker leaves the selection as it is.
C28_EmptyMapTapClearsInfo ==
    /\ (hist.op \in {"touchstart", "click"} /\ Len(touches) <= 1
          /\ (IF hist.op = "click" THEN hist.arg ELSE hist.arg[1]) \in EmptyMapPositions)
         => InfoCleared(st)
    /\ touches = <<>> =>
         /\ \A p \in EmptyMapPositions :
              /\ InfoCleared(infoTouchstartListeners(st, p, now + 16))
              /\ InfoCleared(clickListeners(st, p, now + 16))
         /\ \A p \in MarkerPositions :
              /\ InfoKept(infoTouchstartListeners(st, p, now + 16))
              /\ InfoKept(clickListeners(st, p, now + 16))

\* C28 witness: a tap on the empty map has closed an info panel that was
\* open.
C28_Witness ==
    /\ hist.op = "touchstart" /\ hist.arg[1] \in EmptyMapPositions
    /\ Len(touches) = 1
    /\ hist.pre.info
    /\ InfoCleared(st)

\* Finite minZoom options: below the smallest zoom, negative, the current
\* zoom, inside the range and above maxZoom.
MinZoomRequests == {Dec(1, 2), -Dec(1, 1), st.currentZoom, Dec(21, 10), Dec(3, 1), Dec(20, 1)}
\* The zoom after centering with the minZoom option mz.
CenteredWithMinZoom(ci, mz, mobile) ==
    centerOnCoordinates(st, Px(ci.x), Px(ci.y),
                        [animate |-> ci.animate, duration |-> ci.duration, onComplete |-> 0,
                         minZoom |-> mz, focus |-> ci.focus],
                        mobile, now + 16).currentZoom

\* C29: centerOnCoordinates with a finite numeric minZoom only raises the
\* zoom: afterwards currentZoom = min(maxZoom, max(previous zoom, minZoom)),
\* which is never below the previous zoom and is at least minZoom whenever
\* minZoom is not above maxZoom.
C29_MinZoomOnlyRaises ==
    /\ (hist.op = "centerOn" /\ hist.arg.minZoom # 0) =>
          st.currentZoom >= Min2(maxZoom, hist.arg.minZoom)
    /\ steps <= 2 =>
         \A ci \in CenterInputs, mz \in MinZoomRequests, mobile \in BOOLEAN :
            \A zoom \in {CenteredWithMinZoom(ci, mz, mobile)} :
               /\ zoom = Min2(maxZoom, Max2(st.currentZoom, mz))
               /\ zoom >= st.currentZoom
               /\ mz <= maxZoom => zoom >= mz

\* C29 witness: the first centering, with minZoom = 3, has raised the zoom
\* from 1 to 3.
C29_Witness ==
    /\ hist.op = "centerOn" /\ hist.arg.minZoom = Dec(3, 1)
    /\ steps = 1
    /\ st.currentZoom = Dec(3, 1)

\* State s2 is at rest after a pinch: no session, no inertia, no velocity.
RestAfterPinch(s2) ==
    /\ ~s2.pinchActive /\ ~s2.isPanning
    /\ s2.panInertiaFrame = 0 /\ s2.rafInertia = {}
    /\ s2.panVelocityX = 0 /\ s2.panVelocityY = 0
\* The pinch of the current state, now and after one more move of the mouse
\* or of a finger.
PinchStates ==
    IF st.pinchActive /\ Len(touches) >= 2
    THEN {st} \cup {mousemoveListener(st, p, now + 16) : p \in Positions}
              \cup {touchMoveHandler(st, Moved(i, p), now + 16) :
                        i \in 1..Len(touches), p \in Positions}
    ELSE {}
\* All fingers leave the screen in pinch state s: the engine is at rest with
\* the zoom and the pan of s.
LiftedAtRest(s, t) ==
    LET s2 == handleTouchEnd(s, <<>>, Len(touches), t)
    IN /\ RestAfterPinch(s2)
       /\ s2.currentZoom = s.currentZoom
       /\ s2.panX = s.panX /\ s2.panY = s.panY

\* C30: when all touches end during a pinch the engine is at rest without
\* inertia: pinchActive and isPanning are false, no inertia frame is
\* scheduled, the velocity is (0, 0), and pan and zoom keep the values of
\* the last pinch update.
C30_PinchEndsAtRest ==
    /\ (hist.op = "touchend" /\ hist.pre.pinch /\ touches = <<>>) => RestAfterPinch(st)
    /\ \A s \in PinchStates : s.pinchActive => LiftedAtRest(s, now + 32)

\* The zoom of pinch session s at finger distance d, in the claim's words:
\* clamp(pinchStartZoom * (1 + 2 * (d / startDistance - 1)), minZoom, maxZoom).
PinchZoomFor(s, d) ==
    clamp(Mul(s.pinchStartZoom,
              Add(Dec(1, 1), Mul(Sub(Div(d, s.pinchStartDistance), Dec(1, 1)), Dec(2, 1)))),
          minZoom, maxZoom)
\* The finger positions after one of the two fingers has moved.
PinchMoves == {Moved(i, p) : i \in 1..2, p \in Positions}
FingerDistance(m) == getTouchDistance(m[1], m[2])
\* A pinch session is under way whose fingers started apart.
InPinchSession == st.pinchActive /\ Len(touches) = 2 /\ st.pinchStartDistance > 0
\* The states after the move m of the current session.
AfterPinchMove(m) == {touchMoveHandler(st, m, now + 16)}
\* The zoom after the move m2 that follows state s1.
ZoomAfterNext(s1, m2) == touchMoveHandler(s1, m2, now + 32).currentZoom

\* The moves are applied to the sessions reached by up to three events, and
\* a second move to those reached by up to two.
\* C31 as stated: after each pinch move, whatever the finger distance, the
\* zoom is the function of the start values and the current distance.
C31_PinchZoomFromStartExact ==
    (InPinchSession /\ steps <= 3) =>
        \A m \in PinchMoves : \A s1 \in AfterPinchMove(m) :
            /\ s1.currentZoom = PinchZoomFor(st, FingerDistance(m))
            /\ \A m2 \in (IF steps <= 2 THEN PinchMoves ELSE {}) :
                  ZoomAfterNext(s1, m2) = PinchZoomFor(st, FingerDistance(m2))

\* C31: within a pinch session the zoom after each pinch move with the
\* fingers apart is clamp(pinchStartZoom * (1 + 2 * (distance /
\* startDistance - 1)), minZoom, maxZoom), whatever the moves before; at
\* the starting distance it is pinchStartZoom; a move with the fingers on
\* one point is ignored.
C31_PinchZoomFromStart ==
    (InPinchSession /\ steps <= 3) =>
        \A m \in PinchMoves : \A s1 \in AfterPinchMove(m) :
            /\ FingerDistance(m) > 0 =>
                 /\ s1.currentZoom = PinchZoomFor(st, FingerDistance(m))
                 /\ FingerDistance(m) = st.pinchStartDistance =>
                       s1.currentZoom = st.pinchStartZoom
            /\ FingerDistance(m) = 0 => s1.currentZoom = st.currentZoom
            /\ \A m2 \in (IF steps <= 2 THEN PinchMoves ELSE {}) :
                 FingerDistance(m2) > 0 =>
                    ZoomAfterNext(s1, m2) = PinchZoomFor(st, FingerDistance(m2))

\* C31 witness: a pinch move has changed the zoom of a session whose
\* fingers started apart.
C31_Witness ==
    /\ hist.op = "touchmove" /\ "handlePinchMove" \in hist.calls
    /\ InPinchSession
    /\ st.currentZoom # st.pinchStartZoom
    /\ st.currentZoom = PinchZoomFor(st, FingerDistance(touches))

\* viewBox vb satisfies 0 <= x <= baseWidth - width and 0 <= y <= baseHeight
\* - height.
WithinCanvasRange(vb) ==
    /\ 0 <= vb.x /\ vb.x <= Sub(baseWidth, vb.width)
    /\ 0 <= vb.y /\ vb.y <= Sub(baseHeight, vb.height)
\* The pinch of the current state, and the same pinch begun after a free
\* drag or a fling had carried the pan far outside the canvas.
PinchesFromAnyPan ==
    {st} \cup {updateViewBox([st EXCEPT !.panX = Px(p[1]), !.panY = Px(p[2])]) :
                  p \in IF steps <= 2
                        THEN {<<-700, -900>>, <<900, 1100>>, <<130, 75>>, <<-700, 1100>>}
                        ELSE {}}

\* C32: after every pinch move applied with a non-empty svg rectangle the
\* viewBox lies inside the canvas, 0 <= viewBox.x <= baseWidth - width and
\* 0 <= viewBox.y <= baseHeight - height, wherever the pan was before.
C32_PinchMoveInCanvas ==
    /\ (hist.op = "touchmove" /\ "handlePinchMove" \in hist.calls)
          => WithinCanvasRange(st.viewBox)
    /\ (st.pinchActive /\ Len(touches) = 2 /\ steps <= 3) =>
          \A s \in PinchesFromAnyPan, m \in PinchMoves :
             \A s1 \in {touchMoveHandler(s, m, now + 16)} :
                "handlePinchMove" \in s1.calls => WithinCanvasRange(s1.viewBox)

\* C32 witness: a pinch move has brought the viewBox, which the default pan
\* keeps 60 px outside the canvas, back inside at a zoom above 1.
C32_Witness ==
    /\ hist.op = "touchmove" /\ "handlePinchMove" \in hist.calls
    /\ st.currentZoom > Dec(1, 1)
    /\ WithinCanvasRange(st.viewBox)

\* The ids of the callbacks invoked so far in state s.
InvokedIds(s) == {s.invoked[i].cb : i \in 1..Len(s.invoked)}
\* At most one animation loop is scheduled, under the handle the instance
\* holds, and a registered callback belongs to a scheduled loop.
AtMostOneAnimationLoop(s) ==
    /\ Cardinality(s.rafAnim) <= 1
    /\ \A c \in s.rafAnim : c.id = s.panAnimationFrame
    /\ s.panAnimationComplete # 0 => s.rafAnim # {}
\* The handler recorded in h supersedes or cancels a centering animation.
Supersedes(h) ==
    \/ h.op \in {"centerOn", "zoomIn", "zoomOut", "resetView"}
    \/ "beginPan" \in h.calls \/ "startPinch" \in h.calls
\* This step ran a handler (it is not a pause).
HandlerRan == st' # st \/ hist' # hist
\* This step drops the animation that was pending before it: its frames
\* are gone, its callback is no longer registered and was not invoked.
DropsPendingAnimation ==
    /\ st.rafAnim \cap st'.rafAnim = {}
    /\ st.panAnimationComplete # 0 =>
          /\ st'.panAnimationComplete # st.panAnimationComplete
          /\ st.panAnimationComplete \notin InvokedIds(st')
\* A callback issued before this step is invoked in it only by the frame
\* that completes the animation it is registered for.
OnlyLiveCallbackInvoked ==
    \A cb \in 1..st.issued :
        (cb \in InvokedIds(st') /\ cb \notin InvokedIds(st)) =>
            /\ hist'.op = "animFrame"
            /\ cb = st.panAnimationComplete
            /\ hist'.arg.id = st.panAnimationFrame

\* C33: at most one centering animation loop is scheduled at any time, and
\* the completion callback of an animation that was cancelled or superseded
\* (by a new centerOnCoordinates, a drag, a pinch, a zoom button, resetView
\* or the table-only toggle) is never invoked, neither when it is cancelled
\* nor when a later animation completes.
C33_OneLoopNoStaleCallback ==
    /\ [](/\ AtMostOneAnimationLoop(st)
          /\ AtMostOneAnimationLoop(applyTableOnlyState(st))
          /\ applyTableOnlyState(st).rafAnim = {}
          /\ applyTableOnlyState(st).panAnimationComplete = 0
          /\ applyTableOnlyState(st).invoked = st.invoked)
    /\ [][/\ (HandlerRan /\ Supersedes(hist')) => DropsPendingAnimation
          /\ OnlyLiveCallbackInvoked]_vars

\* C33 witness: the second of two animations has completed and invoked its
\* callback; the callback of the first, which was cancelled, was not
\* invoked.
C33_Witness ==
    /\ hist.op = "animFrame"
    /\ st.issued = 2
    /\ InvokedIds(st) = {2}
    /\ st.rafAnim = {}


\* ------------------------------------------------------------------ C34
\* The pan velocity of s is (0,0) when no drag is active and no inertia
\* frame is pending.
ZeroVelocityAtRest(s) ==
    (~s.isPanning /\ s.panInertiaFrame = 0) =>
        (s.panVelocityX = 0 /\ s.panVelocityY = 0)

\* C34: in every reachable state in which no drag is active (isPanning is
\* false) and no inertia frame is pending (panInertiaFrame is null) the pan
\* velocity is (0,0), also after the table-only toggle has stopped the map:
\* no velocity of an ended, aborted or interrupted gesture survives.
C34_NoStaleVelocity ==
    /\ ZeroVelocityAtRest(st)
    /\ ZeroVelocityAtRest(applyTableOnlyState(st))

\* A touch drag that moved the view was aborted by a touchmove (the finger
\* went over the table panel): the drag is over and no inertia frame is
\* pending.
C34_Witness ==
    /\ hist.op = "touchmove"
    /\ "endPan" \in hist.calls
    /\ hist.pre.panning
    /\ ~st.isPanning
    /\ st.panInertiaFrame = 0
    /\ st.panX # InitState.panX


\* ------------------------------------------------------------------ C35
\* C35: a mouse click on a poster area that is not the selected one ends,
\* after the shape's click listener and the svg's click listener have run,
\* with that area selected and the info panel active.
C35_ClickSelectsArea ==
    \A p \in AreaPositions :
        st.selectedArea # AreaIdAt(p) =>
            \A s2 \in {clickListeners(st, p, now + 16)} :
                s2.selectedArea = AreaIdAt(p) /\ s2.infoActive


\* ------------------------------------------------------------------ C36
AreaIds == {AreaIdAt(p) : p \in AreaPositions}
InteractionTypes == {"mouse", "touch", "keyboard"}
\* Delays (ms) of the next selectArea after a close: inside the 350 ms of
\* the touch guard, and at its end or later.
InsideTouchGuard == {0, 16, 349}
AfterTouchGuard == {350, 351, 1000}
\* The panel shows area a in s.
Shows(s, a) == s.infoActive /\ s.selectedArea = a
\* The panel is hidden in s and no area is selected.
Hidden(s) == ~s.infoActive /\ s.selectedArea = 0
\* After the close s1 of area a at time t by interaction type it: a call
\* for a inside the touch guard is ignored when the close was a touch; a
\* call for a at the end of the guard or later, and a call for another
\* area, show the panel.
ReselectAfterClose(s1, a, it, t) ==
    /\ \A d \in InsideTouchGuard, it2 \in InteractionTypes :
           IF it = "touch"
           THEN selectArea(s1, a, it2, t + d) = s1
           ELSE Shows(selectArea(s1, a, it2, t + d), a)
    /\ \A d \in AfterTouchGuard, it2 \in InteractionTypes :
           Shows(selectArea(s1, a, it2, t + d), a)
    /\ \A d \in InsideTouchGuard \cup AfterTouchGuard, it2 \in InteractionTypes :
           \A b \in AreaIds \ {a} : Shows(selectArea(s1, b, it2, t + d), b)

\* C36: selectArea for the area that is selected with the panel active
\* hides the panel and clears the selection; when that close was made by a
\* touch, another selectArea for the same area less than 350 ms later is
\* ignored (the panel stays hidden), while a call for a different area, or
\* for the same area 350 ms later or more, shows the panel.
C36_SelectAreaToggles ==
    \A a \in AreaIds, it \in InteractionTypes :
        Shows(st, a) =>
            \A s1 \in {selectArea(st, a, it, now + 16)} :
                /\ Hidden(s1)
                /\ ReselectAfterClose(s1, a, it, now + 16)

\* An area that was shown has been closed by a tap on it.
C36_Witness ==
    /\ hist.op = "touchend"
    /\ hist.pre.info
    /\ Hidden(st)
    /\ st.lastClosedAreaId \in AreaIds
    /\ st.lastClosedInteractionType = "touch"


\* ------------------------------------------------------------------ C37
\* The times at which the pending auto-hide timers of s come due.
PendingDue(s) == {h.due : h \in s.timeouts \cup s.posterTimeouts}

\* C37: whenever the panel is shown (by showAreaInfo or by a marker's
\* showPosterInfo) or hidden by hideInfo, every auto-hide timer armed before
\* is cancelled: after a display the only timer that can be pending is its
\* own (10 s for an area, 8 s for a marker), after hideInfo none is, so no
\* timer hides a panel that was shown after the timer was armed.
C37_DisplayCancelsEarlierTimers ==
    /\ PendingDue(hideInfo(st)) = {}
    /\ PendingDue(showPosterInfo(st, now + 16)) = {now + 16 + posterInfoHideMs}
    /\ \A a \in AreaIds, it \in InteractionTypes :
           PendingDue(showAreaInfo(st, a, it, now + 16)) \subseteq {now + 16 + infoAutoHideMs}
    /\ (hist.op \in {"timeout", "posterTimeout"} /\ hist.pre.info /\ ~st.infoActive)
           => PendingDue(st) = {}


\* ======================================================================
\* LayoutAPI (src/layout-api.js), the object in the map's layout field.
\* layoutElements is the Map of registered elements (one record per id),
\* domNodes the element nodes attached to the map with the group they are
\* in, svgCache the Map of loaded SVG texts.
\* ======================================================================
LayoutIds == {"e1", "e2"}
\* Configurations of addShape: a rectangle in the poster-areas group, one in
\* the markers group (zIndex above 100), and a shape of an unknown type.
ShapeConfigs ==
    {[id |-> i, type |-> c[1], zIndex |-> c[2]] :
        i \in LayoutIds, c \in {<<"rect", 0>>, <<"rect", 101>>, <<"blob", 0>>}}
ShapeTypes == {"rect", "circle", "polygon", "path"}

\* The registered record of elementId, as a set (empty when there is none).
LayoutElement(s, elementId) == {e \in s.layoutElements : e.id = elementId}

\* layoutElements.set(id, record).
SetLayoutElement(s, rec) ==
    [s EXCEPT !.layoutElements = {e \in @ : e.id # rec.id} \cup {rec}]

\* targetGroup.appendChild(element).
appendChild(s, parent, node) ==
    [s EXCEPT !.domNodes = {n \in @ : n.node # node} \cup {[node |-> node, parent |-> parent]}]

renderElement(s, elementId) ==
    IF LayoutElement(s, elementId) = {} THEN s
    ELSE LET layoutElement == CHOOSE e \in LayoutElement(s, elementId) : TRUE
             targetGroup == IF layoutElement.type = "poster-mount" THEN "posterLayer"
                            ELSE IF layoutElement.zIndex > 100 THEN "markersGroup"
                            ELSE "posterAreasGroup"
         IN appendChild(s, targetGroup, layoutElement.element)

\* createShapeElement throws for an unknown shape type, before anything is
\* registered.
addShape(s, config) ==
    IF config.type \notin ShapeTypes THEN s
    ELSE LET element == s.nodesCreated + 1
             s1 == [s EXCEPT !.nodesCreated = element]
             s2 == SetLayoutElement(s1, [id |-> config.id, element |-> element,
                                         type |-> "shape", zIndex |-> config.zIndex])
         IN renderElement(s2, config.id)

addPosterMount(s, config) ==
    LET element == s.nodesCreated + 1
        s1 == [s EXCEPT !.nodesCreated = element]
        s2 == SetLayoutElement(s1, [id |-> config.id, element |-> element,
                                    type |-> "poster-mount", zIndex |-> 0])
    IN renderElement(s2, config.id)

removeElement(s, elementId) ==
    LET nodes == {e.element : e \in LayoutElement(s, elementId)}
    IN [s EXCEPT !.domNodes = {n \in @ : n.node \notin nodes},
                 !.layoutElements = {e \in @ : e.id # elementId}]

getAllElements(s) == {e.id : e \in s.layoutElements}

\* clear: removeElement for every registered id, then layoutElements.clear().
RECURSIVE RemoveAll(_, _)
RemoveAll(s, ids) ==
    IF ids = {} THEN s
    ELSE LET id == CHOOSE i \in ids : TRUE
         IN RemoveAll(removeElement(s, id), ids \ {id})
clear(s) == [RemoveAll(s, getAllElements(s)) EXCEPT !.layoutElements = {}]

AddShape ==
    \E config \in ShapeConfigs, d \in EventGaps :
        Handled("addShape", config, addShape(st, config), touches, now + d)

AddPosterMount ==
    \E id \in LayoutIds, d \in EventGaps :
        Handled("addPosterMount", id, addPosterMount(st, [id |-> id]), touches, now + d)

RemoveElement ==
    \E id \in LayoutIds, d \in EventGaps :
        Handled("removeElement", id, removeElement(st, id), touches, now + d)

Clear == \E d \in EventGaps : Handled("clear", <<>>, clear(st), touches, now + d)


\* ---------------------------------------------- loadSVG and addSVG
\* Strings are sequences of characters.  SVG sources: an inline document and
\* two files.
InlineSvg == <<"<", "s", "v", "g", ">">>
FileA == <<"a", ".", "s", "v", "g">>
FileB == <<"b", ".", "s", "v", "g">>
SvgSources == {InlineSvg, FileA, FileB}
\* str.startsWith(prefix)
startsWith(str, prefix) ==
    Len(str) >= Len(prefix) /\ SubSeq(str, 1, Len(prefix)) = prefix
\* The text the server answers for the file source.
ResponseText(source) == <<"<", "s", "v", "g", " ">> \o source
\* addSVG configurations; a plain loadSVG call has no configuration.
NoConfig == [id |-> "none", svgFile |-> <<>>]
SvgConfigs == {[id |-> i, svgFile |-> f] : i \in LayoutIds, f \in SvgSources}

\* svgCache.has(source), svgCache.get(source), svgCache.set(source, text)
CacheHas(s, source) == \E c \in s.svgCache : c.source = source
CacheGet(s, source) == (CHOOSE c \in s.svgCache : c.source = source).text
CacheSet(s, source, text) ==
    [s EXCEPT !.svgCache = {c \in @ : c.source # source}
                               \cup {[source |-> source, text |-> text]}]

\* loadSVG returns svgContent to its caller.  In addSVG the rest of the
\* function runs: createSVGElement, layoutElements.set and renderElement.
loadSVGReturns(s, call, svgContent) ==
    LET s1 == [s EXCEPT !.svgReturned = Append(@, [call |-> call.n, source |-> call.source,
                                                  result |-> svgContent])]
    IN IF call.config = NoConfig THEN s1
       ELSE LET element == s1.nodesCreated + 1
                s2 == [s1 EXCEPT !.nodesCreated = element]
                s3 == SetLayoutElement(s2, [id |-> call.config.id, element |-> element,
                                            type |-> "svg", zIndex |-> 0])
            IN renderElement(s3, call.config.id)

\* loadSVG throws: addSVG logs the error and throws it again.
loadSVGThrows(s, call) ==
    [s EXCEPT !.svgReturned = Append(@, [call |-> call.n, source |-> call.source,
                                         result |-> "Failed to load SVG"])]

\* loadSVG up to its first await: an inline source and a cached one return;
\* otherwise the fetch is issued and the call waits for it.
loadSVG(s, svgSource, config) ==
    LET n == s.svgCalls + 1
        s1 == [s EXCEPT !.svgCalls = n]
        call == [n |-> n, source |-> svgSource, config |-> config]
    IN IF startsWith(svgSource, <<"<", "s", "v", "g">>)
       THEN loadSVGReturns(s1, call, svgSource)
       ELSE IF CacheHas(s1, svgSource)
       THEN loadSVGReturns(s1, call, CacheGet(s1, svgSource))
       ELSE [s1 EXCEPT !.fetchLog = Append(@, svgSource),
                       !.svgPending = @ \cup {call}]

\* The fetch of a waiting call settles: with ok the text is stored in the
\* cache and returned, otherwise loadSVG throws.
loadSVGResumes(s, call, ok) ==
    LET s1 == [s EXCEPT !.svgPending = @ \ {call}]
    IN IF ok
       THEN loadSVGReturns(CacheSet(s1, call.source, ResponseText(call.source)),
                           call, ResponseText(call.source))
       ELSE loadSVGThrows(s1, call)

addSVG(s, config) == loadSVG(s, config.svgFile, config)

LoadSVG ==
    \E source \in SvgSources, d \in EventGaps :
        Handled("loadSVG", source, loadSVG(st, source, NoConfig), touches, now + d)

AddSVG ==
    \E config \in SvgConfigs, d \in EventGaps :
        Handled("addSVG", config, addSVG(st, config), touches, now + d)

FetchSettles ==
    \E call \in st.svgPending, ok \in BOOLEAN, d \in EventGaps :
        Handled("fetchSettles", [call |-> call.n, ok |-> ok],
                loadSVGResumes(st, call, ok), touches, now + d)

LayoutNext ==
    \/ AddShape \/ AddPosterMount \/ RemoveElement \/ Clear
    \/ LoadSVG \/ AddSVG \/ FetchSettles

LayoutSpec == Init /\ [][LayoutNext]_vars

\* ------------------------------------------------------------------ C38
AttachedNodes(s) == {n.node : n \in s.domNodes}
RegisteredNodes(s) == {e.element : e \in s.layoutElements}

\* C38: after any sequence of addShape, addPosterMount, removeElement and
\* clear the element nodes attached to the map are the elements registered
\* in layoutElements: an element added under a registered id leaves no node
\* of the replaced element attached, removeElement(id) detaches the node and
\* unregisters the id, and clear leaves both empty.
C38_AttachedEqualsRegistered ==
    st.svgCalls = 0 =>
        /\ AttachedNodes(st) = RegisteredNodes(st)
        /\ \A id \in LayoutIds :
               \A s2 \in {removeElement(st, id)} :
                   id \notin getAllElements(s2) /\ AttachedNodes(s2) = RegisteredNodes(s2)
        /\ \A s2 \in {clear(st)} : s2.domNodes = {} /\ s2.layoutElements = {}


\* ------------------------------------------------------------------ C39
\* The number of fetches issued for source, and of those that failed.
FetchesOf(s, source) ==
    Cardinality({i \in 1..Len(s.fetchLog) : s.fetchLog[i] = source})
FailuresOf(s, source) ==
    Cardinality({i \in 1..Len(s.svgReturned) :
                    /\ s.svgReturned[i].source = source
                    /\ s.svgReturned[i].result = "Failed to load SVG"})

\* C39: under any interleaving of addSVG and loadSVG calls, loadSVG issues
\* at most one fetch per distinct source that is not inline (a fetch that
\* failed aside), later and overlapping calls being served from svgCache;
\* an inline source starting with '<svg' is returned as it is and never
\* fetched; a failed fetch stores nothing in the cache.
C39_OneFetchPerSource ==
    /\ \A source \in SvgSources :
           /\ FetchesOf(st, source) - FailuresOf(st, source) <= 1
           /\ startsWith(source, <<"<", "s", "v", "g">>) =>
                  /\ FetchesOf(st, source) = 0
                  /\ \A s2 \in {loadSVG(st, source, NoConfig)} :
                         /\ s2.fetchLog = st.fetchLog /\ s2.svgPending = st.svgPending
                         /\ s2.svgReturned[Len(s2.svgReturned)].result = source
    /\ \A call \in st.svgPending :
           loadSVGResumes(st, call, FALSE).svgCache = st.svgCache


\* ---------------------------------------------- parseTSV (734 to 783)
\* A string is a sequence of tokens: a token is a tab, a line feed, a
\* carriage return, a space, or a run of other characters.
TAB == "TAB"
LF == "LF"
CR == "CR"
SP == "SP"
Whitespace == {TAB, LF, CR, SP}
\* The value of a property or of an array element that does not exist.
Undefined == <<"#undefined">>
\* The value of a coordinate that was not assigned.
NoNumber == NaN + 1

\* The first position of x in the sequence arr (from 1), or 0.
FirstIndex(arr, x) ==
    IF \E i \in 1..Len(arr) : arr[i] = x
    THEN CHOOSE i \in 1..Len(arr) : arr[i] = x /\ \A j \in 1..(i - 1) : arr[j] # x
    ELSE 0
\* Array.prototype.indexOf: from 0, or -1.
indexOf(arr, x) == FirstIndex(arr, x) - 1

\* String.prototype.split(sep): the pieces between the separators.
RECURSIVE Split(_, _)
Split(str, sep) ==
    LET i == FirstIndex(str, sep)
    IN IF i = 0 THEN <<str>>
       ELSE <<SubSeq(str, 1, i - 1)>> \o Split(SubSeq(str, i + 1, Len(str)), sep)

\* String.prototype.trim
trim(str) ==
    LET keep == {i \in 1..Len(str) : str[i] \notin Whitespace}
    IN IF keep = {} THEN <<>>
       ELSE SubSeq(str, CHOOSE i \in keep : \A j \in keep : i <= j,
                        CHOOSE i \in keep : \A j \in keep : i >= j)

\* String.prototype.toLowerCase
LowerToken(tok) ==
    IF tok \in {"Vertical", "VERTICAL"} THEN "vertical"
    ELSE IF tok \in {"Horizontal", "HORIZONTAL"} THEN "horizontal"
    ELSE tok
toLowerCase(str) == [i \in 1..Len(str) |-> LowerToken(str[i])]

\* parseFloat: the number at the start of the string after leading white
\* space, or NaN.
parseFloat(str) ==
    LET t == trim(str)
    IN IF t = <<>> THEN NaN
       ELSE IF t[1] = "120" THEN 120
       ELSE IF t[1] = "80" THEN 80
       ELSE NaN

\* a || b for numbers a and b.
OrElse(a, b) == IF a = 0 \/ a = NaN THEN b ELSE a

\* values[index]
ValueAt(values, index) ==
    IF index >= 0 /\ index < Len(values) THEN values[index + 1] ELSE Undefined

\* The headers of the first line.
HeadersOf(tsvText) ==
    LET lines == Split(tsvText, LF)
        cells == Split(lines[1], TAB)
    IN [i \in 1..Len(cells) |-> trim(cells[i])]

\* The values of the data lines that give a poster: the lines after the
\* first that are not empty when trimmed and have five values or more.
RECURSIVE RowsFrom(_, _)
RowsFrom(lines, i) ==
    IF i > Len(lines) THEN <<>>
    ELSE LET line == trim(lines[i])
             values == Split(line, TAB)
         IN IF line = <<>> THEN RowsFrom(lines, i + 1)
            ELSE IF Len(values) >= 5 THEN <<values>> \o RowsFrom(lines, i + 1)
            ELSE RowsFrom(lines, i + 1)
DataRows(tsvText) == RowsFrom(Split(tsvText, LF), 2)

parseTSV(tsvText) ==
    LET headers == HeadersOf(tsvText)
        categoryIndex == OrElse(indexOf(headers, <<"Poster Category">>), 0)
        easelBoardIndex == OrElse(indexOf(headers, <<"Easel Board">>), 1)
        titleIndex == OrElse(indexOf(headers, <<"Poster Title">>), 2)
        studentsIndex == OrElse(indexOf(headers, <<"Student(s)">>), 3)
        mentorIndex == OrElse(indexOf(headers, <<"Faculty/Mentor">>), 4)
        mountIdIndex == indexOf(headers, <<"Mount ID">>)
        xCoordIndex == indexOf(headers, <<"X Coordinate">>)
        yCoordIndex == indexOf(headers, <<"Y Coordinate">>)
        orientationIndex == indexOf(headers, <<"Orientation">>)
        Given(values, index) ==
            index >= 0 /\ ValueAt(values, index) \notin {Undefined, <<>>}
        poster(values) ==
            [category |-> ValueAt(values, categoryIndex),
             easelBoard |-> ValueAt(values, easelBoardIndex),
             title |-> ValueAt(values, titleIndex),
             students |-> ValueAt(values, studentsIndex),
             facultyMentor |-> ValueAt(values, mentorIndex),
             mountId |-> IF Given(values, mountIdIndex)
                         THEN trim(ValueAt(values, mountIdIndex)) ELSE Undefined,
             xCoord |-> IF Given(values, xCoordIndex)
                        THEN parseFloat(ValueAt(values, xCoordIndex)) ELSE NoNumber,
             yCoord |-> IF Given(values, yCoordIndex)
                        THEN parseFloat(ValueAt(values, yCoordIndex)) ELSE NoNumber,
             orientation |-> IF Given(values, orientationIndex)
                             THEN toLowerCase(trim(ValueAt(values, orientationIndex)))
                             ELSE Undefined]
        rows == DataRows(tsvText)
    IN [k \in 1..Len(rows) |-> poster(rows[k])]

\* ---- the TSV texts the function is applied to
MaxRows == 2
\* Array.prototype.join(sep) of a sequence of strings.
RECURSIVE Join(_, _)
Join(cells, sep) ==
    IF cells = <<>> THEN <<>>
    ELSE IF Len(cells) = 1 THEN cells[1]
    ELSE cells[1] \o <<sep>> \o Join(Tail(cells), sep)
StandardHeaders ==
    <<"Poster Category", "Easel Board", "Poster Title", "Student(s)", "Faculty/Mentor">>
PositionHeaders == <<"Mount ID", "X Coordinate", "Y Coordinate", "Orientation">>
\* Header rows: the standard one, with the position columns, with one name
\* replaced, with two columns exchanged, with a column in front, and with
\* spaces around the names.
HeaderRows ==
    {StandardHeaders, StandardHeaders \o PositionHeaders,
     <<"No.">> \o StandardHeaders,
     <<"Easel Board", "Poster Category", "Poster Title", "Student(s)", "Faculty/Mentor">>,
     <<"Poster Title", "Easel Board", "Poster Category", "Student(s)", "Faculty/Mentor">>}
    \cup {[StandardHeaders EXCEPT ![k] = "Abstract"] : k \in 1..5}
HeaderLines ==
    {Join([i \in 1..Len(h) |-> <<h[i]>>], TAB) : h \in HeaderRows}
    \cup {Join([i \in 1..Len(StandardHeaders) |-> <<SP, StandardHeaders[i], SP>>], TAB)}
DataLines ==
    {Join(<<<<"Biology">>, <<"B-1">>, <<"Title1">>, <<"Ann">>, <<"Dr A">>>>, TAB),
     Join(<<<<"Chem">>, <<"C-2">>, <<"Title2">>, <<"Bob">>, <<"Dr B">>, <<"extra">>>>, TAB) \o <<CR>>,
     Join(<<<<"CS">>, <<"CS-3">>, <<"Title3">>, <<"Cy">>, <<"Dr C">>,
            <<"M1">>, <<SP, "120">>, <<"abc">>, <<"Vertical">>>>, TAB),
     Join(<<<<"7">>, <<"Math">>, <<"M-4">>, <<"Title4">>, <<"Di">>, <<"Dr D">>>>, TAB),
     Join(<<<<"Phys">>, <<"P-5">>, <<"Title5">>, <<"Ed">>>>, TAB),
     <<>>}
RECURSIVE LinesUpTo(_)
LinesUpTo(n) ==
    IF n = 0 THEN {<<>>}
    ELSE LinesUpTo(n - 1)
         \cup {Append(ls, l) : ls \in {x \in LinesUpTo(n - 1) : Len(x) = n - 1}, l \in DataLines}
TsvTexts ==
    {Join(<<h>> \o ls, LF) : h \in HeaderLines, ls \in LinesUpTo(MaxRows)}

\* loadPostersFromTSV has received a text.
ParseInit ==
    /\ \E text \in TsvTexts : st = [InitState EXCEPT !.tsvText = text]
    /\ touches = <<>>
    /\ now = 16
    /\ steps = 0
    /\ frames = 0
    /\ hist = [op |-> "init", arg |-> <<>>, calls |-> {}, pre |-> Running(InitState)]

\* loadPostersFromTSV parses the text.
ParseTSV ==
    \E d \in EventGaps :
        Handled("parseTSV", <<>>, [st EXCEPT !.posters = parseTSV(st.tsvText)],
                touches, now + d)

ParseSpec == ParseInit /\ [][ParseTSV]_vars

\* ------------------------------------------------------------------ C40
\* The column the claim gives for a header name: the column of that name in
\* the header row and, when the name is absent, the positional default.
NamedColumn(headers, name, default) ==
    IF \E i \in 1..Len(headers) : headers[i] = <<name>>
    THEN indexOf(headers, <<name>>)
    ELSE default

\* C40: for every data row with at least five fields parseTSV takes
\* category, easel board, title, students and faculty/mentor from the
\* columns named 'Poster Category', 'Easel Board', 'Poster Title',
\* 'Student(s)' and 'Faculty/Mentor' in the header row, and from column 0,
\* 1, 2, 3 and 4 when the header is absent.
C40_ColumnsByHeaderOrDefault ==
    hist.op = "parseTSV" =>
        \A headers \in {HeadersOf(st.tsvText)}, rows \in {DataRows(st.tsvText)} :
            /\ Len(st.posters) = Len(rows)
            /\ \A k \in 1..Len(rows) :
                 /\ st.posters[k].category =
                        ValueAt(rows[k], NamedColumn(headers, "Poster Category", 0))
                 /\ st.posters[k].easelBoard =
                        ValueAt(rows[k], NamedColumn(headers, "Easel Board", 1))
                 /\ st.posters[k].title =
                        ValueAt(rows[k], NamedColumn(headers, "Poster Title", 2))
                 /\ st.posters[k].students =
                        ValueAt(rows[k], NamedColumn(headers, "Student(s)", 3))
                 /\ st.posters[k].facultyMentor =
                        ValueAt(rows[k], NamedColumn(headers, "Faculty/Mentor", 4))

====
